---- MODULE Spec2Model ----
(***************************************************************************)
(* Agent orchestration state machine of the risk-analysis pipeline:        *)
(*   - the shared AgentState and its per-field merge rules                 *)
(*     (src/src/state/schema.py),                                          *)
(*   - supervisor_node: iteration guard, deterministic pipeline routing,   *)
(*     adaptive routing with permissive parsing                            *)
(*     (src/src/agents/supervisor.py),                                     *)
(*   - the three agent nodes (src/src/agents/nodes.py),                    *)
(*   - the graph wiring of build_graph (src/src/graph.py),                 *)
(*   - retry_with_backoff (src/src/utils.py),                              *)
(*   - tool dispatch, the ReAct loop and text extraction of an agent node  *)
(*     (src/src/agents/nodes.py).                                          *)
(*                                                                         *)
(* Text is modelled as a sequence of tokens.  A token of a routing         *)
(* response is a brace, a word, or one `"key": value` member of a JSON     *)
(* object; a token of an agent's answer is a word or the report marker.    *)
(***************************************************************************)
EXTENDS Integers, Sequences, FiniteSets, TLC

VARIABLES
    \* ---- AgentState (schema.py) and the graph executor's position ----
    pc,               \* node the executor runs next: "supervisor", an agent, "end", "failed"
    messages,         \* AgentState.messages
    next_agent,       \* AgentState.next_agent
    risk_signals,     \* AgentState.risk_signals
    final_report,     \* AgentState.final_report
    iteration_count,  \* AgentState.iteration_count
    \* ---- observation of the run (history, not program state) ----
    sup_evals,        \* number of supervisor_node evaluations so far
    node_execs,       \* number of completed agent node executions so far
    sup_llm_calls,    \* number of reasoning-service calls made by supervisor_node
    sup_path,         \* path taken by the last supervisor_node evaluation
    \* ---- parsing of one routing response (supervisor.py 103-121) ----
    content,          \* the response text, a sequence of tokens
    parsed,           \* "pending", "returned" or "raised"
    decision,         \* the next_agent computed from content
    \* ---- one call of retry_with_backoff (utils.py) ----
    r_pc,             \* "idle", "invoke", "sleep", "returned", "raised"
    r_max_retries, r_base_delay, r_max_delay, r_jitter,
    r_attempt,        \* loop variable `attempt`
    r_invocations,    \* number of awaits of func so far
    r_sleeps,         \* the delays passed to asyncio.sleep, in order
    r_delay,          \* the delay being slept
    r_errors,         \* the messages of the errors func raised, in order
    r_raised,         \* message of the error that propagated, <<>> if none
    r_result,         \* the invocation whose result was returned, 0 if none
    \* ---- one call of _run_react_loop inside an agent node (nodes.py) ----
    lp_pc,            \* "idle", "call", "tools", "extract", "returned", "raised"
    lp_agent,         \* the agent node running the loop
    lp_max_iterations,
    lp_messages,      \* the working transcript `messages`
    lp_iteration,     \* loop variable `iteration`
    lp_response,      \* `response`
    lp_llm_calls,     \* number of reasoning-service calls so far
    lp_dispatched,    \* number of tool calls dispatched so far
    lp_final_text,    \* the text the loop returned
    \* ---- building the graph (graph.py 44-117, main.py 69-75) ----
    b_pc,             \* "idle", "start", "returned", "raised"
    b_env,            \* use_redis and what the checkpoint backend does
    b_graph,          \* the compiled graph and its checkpointer
    b_ctx,            \* the `async with` of graph.py 102: "none", "entered", "exited"
    \* ---- concurrent calls of _get_store (rag_pipeline.py 119-144) ----
    s_pc,             \* position of each thread
    s_vectorstore,    \* the module-level _vectorstore, 0 while None
    s_local,          \* each thread's `vectorstore` of _initialize_vector_store
    s_saw_empty,      \* each thread's test of line 130
    s_returned,       \* the handle each thread's call returned, 0 if none yet
    s_constructed,    \* number of Chroma handles constructed
    s_seeds,          \* number of add_documents(SAMPLE_DOCUMENTS) calls
    s_collection      \* batches of documents in the persisted collection

gvars == <<pc, messages, next_agent, risk_signals, final_report, iteration_count,
           sup_evals, node_execs, sup_llm_calls, sup_path>>
pvars == <<content, parsed, decision>>
rvars == <<r_pc, r_max_retries, r_base_delay, r_max_delay, r_jitter, r_attempt,
           r_invocations, r_sleeps, r_delay, r_errors, r_raised, r_result>>
lvars == <<lp_pc, lp_agent, lp_max_iterations, lp_messages, lp_iteration,
           lp_response, lp_llm_calls, lp_dispatched, lp_final_text>>
bvars == <<b_pc, b_env, b_graph, b_ctx>>
svars == <<s_pc, s_vectorstore, s_local, s_saw_empty, s_returned, s_constructed,
           s_seeds, s_collection>>
vars == <<gvars, pvars, rvars, lvars, bvars, svars>>

-----------------------------------------------------------------------------
(* Sequence helpers *)

Range(s) == { s[i] : i \in 1..Len(s) }

\* s[i:] of Python, with i a 1-based position
Suffix(s, i) == SubSeq(s, i, Len(s))

\* all sequences over S of length at most n
SeqsUpTo(S, n) == UNION { [1..k -> S] : k \in 0..n }

-----------------------------------------------------------------------------
(* supervisor.py: the pipeline and the routing options *)

FINISH == "FINISH"

REQUIRED_PIPELINE == <<"geopolitical_analyst", "credit_evaluator", "market_synthesizer">>

AGENT_OPTIONS == REQUIRED_PIPELINE \o <<FINISH>>

Agents == Range(REQUIRED_PIPELINE)

\* the literal 10 of `if iteration_count >= 10`
IterationCeiling == 10

-----------------------------------------------------------------------------
(* supervisor.py 103-121: parsing of the routing response                    *)
(* A response is a sequence of tokens.  Token kinds:                          *)
(*   "lbrace" / "rbrace"  the characters { and }                              *)
(*   "word"               free text without braces (val is the text)          *)
(*   "pair"               one member `"key": value` of a JSON object; isstr   *)
(*                        tells whether the value is a JSON string            *)

LB == [kind |-> "lbrace", key |-> "", val |-> "{", isstr |-> FALSE]
RB == [kind |-> "rbrace", key |-> "", val |-> "}", isstr |-> FALSE]
Word(w) == [kind |-> "word", key |-> "", val |-> w, isstr |-> FALSE]
Pair(k, v, s) == [kind |-> "pair", key |-> k, val |-> v, isstr |-> s]

\* str.lower() on the vocabulary of the model
Lower(w) ==
    CASE w = "Geopolitical_Analyst" -> "geopolitical_analyst"
      [] w = "FINISH" -> "finish"
      [] w = "RESOURCE_EXHAUSTED" -> "resource_exhausted"
      [] w = "Rate" -> "rate"
      [] w = "Quota" -> "quota"
      [] w = "Too" -> "too"
      [] w = "Many" -> "many"
      [] w = "Requests" -> "requests"
      [] w = "Connection" -> "connection"
      [] OTHER -> w

\* the lower-cased pieces of text a token contributes to content.lower()
LowerText(tok) ==
    IF tok.kind = "pair" THEN {Lower(tok.key), Lower(tok.val)} ELSE {Lower(tok.val)}

\* `option.lower() in content.lower()`
OccursIn(option, c) == \E i \in 1..Len(c) : Lower(option) \in LowerText(c[i])

\* `"{" in content`
HasBrace(c) == \E i \in 1..Len(c) : c[i].kind = "lbrace"

\* content.index("{"), defined when HasBrace(c)
Index(c) == CHOOSE i \in 1..Len(c) :
                /\ c[i].kind = "lbrace"
                /\ \A j \in 1..(i - 1) : c[j].kind # "lbrace"

\* content.rindex("}"): 0 stands for the ValueError of a missing "}"
RIndex(c) ==
    IF \E i \in 1..Len(c) : c[i].kind = "rbrace"
    THEN CHOOSE i \in 1..Len(c) :
             /\ c[i].kind = "rbrace"
             /\ \A j \in (i + 1)..Len(c) : c[j].kind # "rbrace"
    ELSE 0

\* (mutation) the slice stops before the last "}"
JsonStr_NoEnd(c) == SubSeq(c, Index(c), RIndex(c) - 1)

\* content[content.index("{") : content.rindex("}") + 1]  (empty when the last
\* "}" precedes the first "{")
JsonStr(c) == SubSeq(c, Index(c), RIndex(c))

\* json.loads accepts exactly: "{", members, "}"
WellFormed(s) ==
    /\ Len(s) >= 2
    /\ s[1].kind = "lbrace"
    /\ s[Len(s)].kind = "rbrace"
    /\ \A i \in 2..(Len(s) - 1) : s[i].kind = "pair"

\* decision.get("next", "FINISH") on the loaded object: a repeated key keeps
\* its last value
GetNext(s) ==
    LET at == { i \in 2..(Len(s) - 1) : s[i].key = "next" }
    IN  IF at = {} THEN [isstr |-> TRUE, val |-> FINISH]
        ELSE LET last == CHOOSE i \in at : \A j \in at : j <= i
             IN  [isstr |-> s[last].isstr, val |-> s[last].val]

\* (mutation) the candidate is compared without regard to case
IsOption_IgnoreCase(candidate) ==
    candidate.isstr /\ \E o \in Range(AGENT_OPTIONS) : Lower(candidate.val) = Lower(o)

\* `candidate in AGENT_OPTIONS`
IsOption(candidate) == candidate.isstr /\ candidate.val \in Range(AGENT_OPTIONS)

\* the body of the try statement (lines 107-113): the exception it ends with,
\* and next_agent as it stands after it
TryBlock(c) ==
    IF ~HasBrace(c) THEN [exc |-> "none", next |-> FINISH]
    ELSE IF RIndex(c) = 0 THEN [exc |-> "ValueError", next |-> FINISH]
    ELSE IF ~WellFormed(JsonStr(c)) THEN [exc |-> "JSONDecodeError", next |-> FINISH]
    ELSE IF IsOption(GetNext(JsonStr(c)))
         THEN [exc |-> "none", next |-> GetNext(JsonStr(c)).val]
         ELSE [exc |-> "none", next |-> FINISH]

\* (mutation) only the decoding error is caught
Caught_JsonOnly == {"JSONDecodeError"}

\* `except (json.JSONDecodeError, ValueError)`
Caught == {"JSONDecodeError", "ValueError"}

\* the except body (lines 115-118): first option, in AGENT_OPTIONS order, whose
\* lower-cased name occurs in the lower-cased content
Fallback(c) ==
    LET hits == { k \in 1..Len(AGENT_OPTIONS) : OccursIn(AGENT_OPTIONS[k], c) }
    IN  IF hits = {} THEN FINISH
        ELSE AGENT_OPTIONS[CHOOSE k \in hits : \A j \in hits : k <= j]

\* lines 105-121 as a whole
ParseDecision(c) ==
    LET t == TryBlock(c)
    IN  IF t.exc = "none" THEN [raised |-> FALSE, next |-> t.next]
        ELSE IF t.exc \in Caught THEN [raised |-> FALSE, next |-> Fallback(c)]
        ELSE [raised |-> TRUE, next |-> ""]

-----------------------------------------------------------------------------
(* supervisor.py 51-121: supervisor_node *)

\* (mutation) the guard fires before the pipeline can complete
GuardHit_Early(n) == n >= Len(REQUIRED_PIPELINE) - 1

\* (mutation) the guard one evaluation late
GuardHit_Late(n) == n > IterationCeiling

\* `if iteration_count >= 10`
GuardHit(n) == n >= IterationCeiling

\* agents_reported = [s.get("agent") for s in state.get("risk_signals", [])]
AgentsReported(signals) == [i \in 1..Len(signals) |-> signals[i].agent]

\* (mutation) the scan keeps going and returns the last missing agent
NextInPipeline_Last(reported) ==
    LET missing == { k \in 1..Len(REQUIRED_PIPELINE) :
                         REQUIRED_PIPELINE[k] \notin Range(reported) }
    IN  IF missing = {} THEN ""
        ELSE REQUIRED_PIPELINE[CHOOSE k \in missing : \A j \in missing : j <= k]

\* the loop of lines 68-71: the first agent of REQUIRED_PIPELINE that is not in
\* agents_reported, "" when the loop falls through
NextInPipeline(reported) ==
    LET missing == { k \in 1..Len(REQUIRED_PIPELINE) :
                         REQUIRED_PIPELINE[k] \notin Range(reported) }
    IN  IF missing = {} THEN ""
        ELSE REQUIRED_PIPELINE[CHOOSE k \in missing : \A j \in missing : k <= j]

\* (mutation) the guard placed after the pipeline scan
SupervisorPhase_ScanFirst(count, signals) ==
    IF NextInPipeline(AgentsReported(signals)) # "" THEN "pipeline"
    ELSE IF GuardHit(count) THEN "guard"
    ELSE "adaptive"

\* the order of lines 57-73: the guard, then the pipeline scan, then the
\* reasoning service
SupervisorPhase(count, signals) ==
    IF GuardHit(count) THEN "guard"
    ELSE IF NextInPipeline(AgentsReported(signals)) # "" THEN "pipeline"
    ELSE "adaptive"

\* responses of the reasoning service to the routing prompt that a run explores
RoutingResponses ==
    { <<LB, Pair("next", FINISH, TRUE), RB>>,
      <<LB, Pair("next", "market_synthesizer", TRUE), RB>>,
      <<Word("please"), Word("credit_evaluator"), Word("please")>>,
      <<LB, Word("credit_evaluator")>>,
      <<Word("please"), LB, Pair("next", "Geopolitical_Analyst", TRUE)>>,
      <<>> }

-----------------------------------------------------------------------------
(* nodes.py 157-231: the agent nodes *)

\* report_marker (three box-drawing characters in the source)
report_marker == "==="

\* the values _run_react_loop returns to each node
ReactResults(agent) ==
    CASE agent = "geopolitical_analyst" -> { <<"geo-analysis">> }
      [] agent = "credit_evaluator" -> { <<"credit-analysis">> }
      [] agent = "market_synthesizer" ->
            { <<"preamble", report_marker, "report">>, <<"plain-report">> }

\* the label each node puts before its text
Label(agent) ==
    CASE agent = "geopolitical_analyst" -> "[GEOPOLITICAL ANALYST]"
      [] agent = "credit_evaluator" -> "[CREDIT RISK EVALUATOR]"
      [] agent = "market_synthesizer" -> "[MARKET SYNTHESIZER]"

\* (mutation) the text is cut at the last report_marker
StripPreamble_AtLast(text) ==
    IF \E i \in 1..Len(text) : text[i] = report_marker
    THEN Suffix(text, CHOOSE i \in 1..Len(text) :
                          /\ text[i] = report_marker
                          /\ \A j \in (i + 1)..Len(text) : text[j] # report_marker)
    ELSE text

\* lines 219-223: drop what precedes the first report_marker, if there is one
StripPreamble(text) ==
    IF \E i \in 1..Len(text) : text[i] = report_marker
    THEN Suffix(text, CHOOSE i \in 1..Len(text) :
                          /\ text[i] = report_marker
                          /\ \A j \in 1..(i - 1) : text[j] # report_marker)
    ELSE text

\* AIMessage(content=f"[LABEL]\n\n{final_content}", name=agent)
AgentMessage(agent, text) ==
    [role |-> "assistant", name |-> agent, content |-> <<Label(agent), "\n\n">> \o text]

\* HumanMessage(content=query)
HumanMessage(query) == [role |-> "user", name |-> "", content |-> <<query>>]

\* (mutation) the counter advances by two
NextCount_Two(n) == n + 2

\* `state.get("iteration_count", 0) + 1`
NextCount(n) == n + 1

\* (mutation) an analyst's update carries a tool result of its loop as well
AnalystUpdate_LeaksToolResult(agent, final_content, count) ==
    [messages |-> <<[role |-> "tool", name |-> "", content |-> <<"TOOL_OUTPUT">>],
                    AgentMessage(agent, final_content)>>,
     risk_signals |-> <<[agent |-> agent, analysis |-> final_content]>>,
     iteration_count |-> NextCount(count)]

\* (mutation) an analyst writes final_report as well
AnalystUpdate_WritesReport(agent, final_content, count) ==
    [messages |-> <<AgentMessage(agent, final_content)>>,
     risk_signals |-> <<[agent |-> agent, analysis |-> final_content]>>,
     final_report |-> final_content,
     iteration_count |-> NextCount(count)]

\* the update returned by geopolitical_analyst_node / credit_evaluator_node
AnalystUpdate(agent, final_content, count) ==
    [messages |-> <<AgentMessage(agent, final_content)>>,
     risk_signals |-> <<[agent |-> agent, analysis |-> final_content]>>,
     iteration_count |-> NextCount(count)]

\* (mutation) final_report keeps the preamble that the record drops
SynthesizerUpdate_RawReport(final_content, count) ==
    LET text == StripPreamble(final_content)
    IN  [messages |-> <<AgentMessage("market_synthesizer", text)>>,
         risk_signals |-> <<[agent |-> "market_synthesizer", analysis |-> text]>>,
         final_report |-> final_content,
         iteration_count |-> NextCount(count)]

\* (mutation) the synthesizer's update carries a routing decision
SynthesizerUpdate_Routes(final_content, count) ==
    LET text == StripPreamble(final_content)
    IN  [messages |-> <<AgentMessage("market_synthesizer", text)>>,
         risk_signals |-> <<[agent |-> "market_synthesizer", analysis |-> text]>>,
         final_report |-> text,
         next_agent |-> FINISH,
         iteration_count |-> NextCount(count)]

\* the update returned by market_synthesizer_node
SynthesizerUpdate(final_content, count) ==
    LET text == StripPreamble(final_content)
    IN  [messages |-> <<AgentMessage("market_synthesizer", text)>>,
         risk_signals |-> <<[agent |-> "market_synthesizer", analysis |-> text]>>,
         final_report |-> text,
         iteration_count |-> NextCount(count)]

-----------------------------------------------------------------------------
(* schema.py 19-45: how an update is merged into AgentState.  messages and    *)
(* risk_signals are reducer channels (add_messages, operator.add); the other   *)
(* fields are overwritten when the update names them.                          *)

\* (mutation) risk_signals has no reducer: the update overwrites it
ApplyUpdate_Overwrite(upd) ==
    /\ messages' = IF "messages" \in DOMAIN upd
                   THEN messages \o upd.messages ELSE messages
    /\ risk_signals' = IF "risk_signals" \in DOMAIN upd
                       THEN upd.risk_signals ELSE risk_signals
    /\ next_agent' = IF "next_agent" \in DOMAIN upd
                     THEN upd.next_agent ELSE next_agent
    /\ final_report' = IF "final_report" \in DOMAIN upd
                       THEN upd.final_report ELSE final_report
    /\ iteration_count' = IF "iteration_count" \in DOMAIN upd
                          THEN upd.iteration_count ELSE iteration_count

\* the update is merged field by field
ApplyUpdate(upd) ==
    /\ messages' = IF "messages" \in DOMAIN upd
                   THEN messages \o upd.messages ELSE messages
    /\ risk_signals' = IF "risk_signals" \in DOMAIN upd
                       THEN risk_signals \o upd.risk_signals ELSE risk_signals
    /\ next_agent' = IF "next_agent" \in DOMAIN upd
                     THEN upd.next_agent ELSE next_agent
    /\ final_report' = IF "final_report" \in DOMAIN upd
                       THEN upd.final_report ELSE final_report
    /\ iteration_count' = IF "iteration_count" \in DOMAIN upd
                          THEN upd.iteration_count ELSE iteration_count

-----------------------------------------------------------------------------
(* graph.py 36-89: the compiled graph *)

\* (mutation) FINISH is not mapped to the graph's end
RouteSupervisor_NoEnd(next) == next

\* (mutation) every decision but FINISH runs the first agent
RouteSupervisor_First(next) == IF next = FINISH THEN "end" ELSE REQUIRED_PIPELINE[1]

\* _route_supervisor, followed by the conditional edge's mapping
RouteSupervisor(next) == IF next = FINISH THEN "end" ELSE next

\* supervisor_node returns `upd` having taken `path`, after `calls` calls of the
\* reasoning service
SupervisorReturns(upd, path, calls) ==
    /\ ApplyUpdate(upd)
    /\ pc' = RouteSupervisor(next_agent')
    /\ sup_evals' = sup_evals + 1
    /\ sup_llm_calls' = sup_llm_calls + calls
    /\ sup_path' = path
    /\ UNCHANGED <<node_execs, pvars, rvars, lvars, bvars, svars>>

\* lines 57-61
SupervisorGuard ==
    /\ pc = "supervisor"
    /\ SupervisorPhase(iteration_count, risk_signals) = "guard"
    /\ SupervisorReturns([next_agent |-> FINISH], "guard", 0)

\* lines 63-71
SupervisorPipeline ==
    /\ pc = "supervisor"
    /\ SupervisorPhase(iteration_count, risk_signals) = "pipeline"
    /\ SupervisorReturns([next_agent |-> NextInPipeline(AgentsReported(risk_signals))],
                         "pipeline", 0)

\* lines 73-121, the reasoning service answering with `c`
SupervisorAdaptive ==
    /\ pc = "supervisor"
    /\ SupervisorPhase(iteration_count, risk_signals) = "adaptive"
    /\ \E c \in RoutingResponses :
          /\ ~ParseDecision(c).raised
          /\ SupervisorReturns([next_agent |-> ParseDecision(c).next], "adaptive", 1)

\* lines 96-101 with retry_with_backoff raising, or the parsing raising: the
\* exception leaves supervisor_node and the graph run, no update is applied
SupervisorRaises ==
    /\ pc = "supervisor"
    /\ SupervisorPhase(iteration_count, risk_signals) = "adaptive"
    /\ pc' = "failed"
    /\ sup_evals' = sup_evals + 1
    /\ sup_llm_calls' = sup_llm_calls + 1
    /\ sup_path' = "adaptive"
    /\ UNCHANGED <<messages, next_agent, risk_signals, final_report,
                   iteration_count, node_execs, pvars, rvars, lvars, bvars, svars>>

\* an agent node returning `upd`; the edge agent -> supervisor
NodeReturns(upd) ==
    /\ ApplyUpdate(upd)
    /\ pc' = "supervisor"
    /\ node_execs' = node_execs + 1
    /\ UNCHANGED <<sup_evals, sup_llm_calls, sup_path, pvars, rvars, lvars, bvars, svars>>

geopolitical_analyst_node ==
    /\ pc = "geopolitical_analyst"
    /\ \E final_content \in ReactResults("geopolitical_analyst") :
          NodeReturns(AnalystUpdate("geopolitical_analyst", final_content, iteration_count))

credit_evaluator_node ==
    /\ pc = "credit_evaluator"
    /\ \E final_content \in ReactResults("credit_evaluator") :
          NodeReturns(AnalystUpdate("credit_evaluator", final_content, iteration_count))

market_synthesizer_node ==
    /\ pc = "market_synthesizer"
    /\ \E final_content \in ReactResults("market_synthesizer") :
          NodeReturns(SynthesizerUpdate(final_content, iteration_count))

\* (mutation) the failing node's record reaches risk_signals
NodeRaises_HalfApplied ==
    /\ pc \in Agents
    /\ pc' = "failed"
    /\ risk_signals' = Append(risk_signals, [agent |-> pc, analysis |-> <<>>])
    /\ UNCHANGED <<messages, next_agent, final_report, iteration_count,
                   sup_evals, node_execs, sup_llm_calls, sup_path, pvars, rvars, lvars, bvars, svars>>

\* _run_react_loop raising inside a node (retries exhausted): no update is applied
NodeRaises ==
    /\ pc \in Agents
    /\ pc' = "failed"
    /\ UNCHANGED <<messages, next_agent, risk_signals, final_report, iteration_count,
                   sup_evals, node_execs, sup_llm_calls, sup_path, pvars, rvars, lvars, bvars, svars>>

\* main.py 78-85: initial_state, and the entry point of the graph
Queries == {"assess ACME"}

GraphInit ==
    /\ pc = "supervisor"
    /\ messages \in { <<HumanMessage(q)>> : q \in Queries }
    /\ next_agent = ""
    /\ risk_signals = <<>>
    /\ final_report = <<>>
    /\ iteration_count = 0
    /\ sup_evals = 0
    /\ node_execs = 0
    /\ sup_llm_calls = 0
    /\ sup_path = "none"

ParseIdle == content = <<>> /\ parsed = "idle" /\ decision = ""

RetryIdle ==
    /\ r_pc = "idle"
    /\ r_max_retries = 0 /\ r_base_delay = 0 /\ r_max_delay = 0 /\ r_jitter = FALSE
    /\ r_attempt = 0 /\ r_invocations = 0 /\ r_sleeps = <<>> /\ r_delay = 0
    /\ r_errors = <<>> /\ r_raised = <<>> /\ r_result = 0

ReactIdle ==
    /\ lp_pc = "idle"
    /\ lp_agent = "" /\ lp_max_iterations = 0 /\ lp_messages = <<>>
    /\ lp_iteration = 0 /\ lp_response = <<>> /\ lp_llm_calls = 0
    /\ lp_dispatched = 0 /\ lp_final_text = <<>>

\* no graph built
NoGraph == [entry |-> "", conditional |-> <<>>, edges |-> <<>>, checkpointer |-> ""]

BuildIdle == b_pc = "idle" /\ b_env = "" /\ b_graph = NoGraph /\ b_ctx = "none"

StoreIdle ==
    /\ s_pc = <<>> /\ s_vectorstore = 0 /\ s_local = <<>> /\ s_saw_empty = <<>>
    /\ s_returned = <<>> /\ s_constructed = 0 /\ s_seeds = 0 /\ s_collection = 0

OthersIdle == BuildIdle /\ StoreIdle

Init == GraphInit /\ ParseIdle /\ RetryIdle /\ ReactIdle /\ OthersIdle

Next ==
    \/ SupervisorGuard
    \/ SupervisorPipeline
    \/ SupervisorAdaptive
    \/ SupervisorRaises
    \/ geopolitical_analyst_node
    \/ credit_evaluator_node
    \/ market_synthesizer_node
    \/ NodeRaises

\* one analysis run, as run_analysis starts it
Spec == Init /\ [][Next]_vars

\* the steps of a run in which no reasoning-service call exhausts its retries
NextOK ==
    \/ SupervisorGuard
    \/ SupervisorPipeline
    \/ SupervisorAdaptive
    \/ geopolitical_analyst_node
    \/ credit_evaluator_node
    \/ market_synthesizer_node

\* such a run: the executor schedules the next node as long as there is one
LiveSpec == Init /\ [][NextOK]_vars /\ WF_vars(NextOK)

-----------------------------------------------------------------------------
(* supervisor_node applied to an arbitrary AgentState *)

MaxCount == 12
MaxSignals == 3

AnySignals ==
    SeqsUpTo({ [agent |-> a, analysis |-> <<"text">>] : a \in Agents }, MaxSignals)

AnyTranscripts ==
    { <<HumanMessage("assess ACME")>>,
      <<HumanMessage("FINISH now"), AgentMessage("credit_evaluator", <<FINISH>>)>> }

SupInit ==
    /\ pc = "supervisor"
    /\ messages \in AnyTranscripts
    /\ next_agent = ""
    /\ risk_signals \in AnySignals
    /\ final_report = <<>>
    /\ iteration_count \in 0..MaxCount
    /\ sup_evals = 0
    /\ node_execs = 0
    /\ sup_llm_calls = 0
    /\ sup_path = "none"
    /\ ParseIdle
    /\ RetryIdle
    /\ ReactIdle
    /\ OthersIdle

SupNext ==
    \/ SupervisorGuard
    \/ SupervisorPipeline
    \/ SupervisorAdaptive
    \/ SupervisorRaises

SupSpec == SupInit /\ [][SupNext]_vars

\* the graph variables of a specification that runs no graph
GraphOff ==
    /\ pc = "off"
    /\ messages = <<>>
    /\ next_agent = ""
    /\ risk_signals = <<>>
    /\ final_report = <<>>
    /\ iteration_count = 0
    /\ sup_evals = 0
    /\ node_execs = 0
    /\ sup_llm_calls = 0
    /\ sup_path = "none"

-----------------------------------------------------------------------------
(* the routing-response parsing applied to every response of bounded length *)

MaxContentLen == 5

Tokens ==
    { LB, RB,
      Word("credit_evaluator"), Word("please"),
      Pair("next", "market_synthesizer", TRUE), Pair("next", FINISH, TRUE),
      Pair("next", "Geopolitical_Analyst", TRUE), Pair("next", "42", FALSE) }

Contents == SeqsUpTo(Tokens, MaxContentLen)

ParseInit ==
    /\ content \in Contents
    /\ parsed = "pending"
    /\ decision = ""
    /\ GraphOff
    /\ RetryIdle
    /\ ReactIdle
    /\ OthersIdle

\* lines 105-121 on `content`
ParseResponse ==
    /\ parsed = "pending"
    /\ parsed' = IF ParseDecision(content).raised THEN "raised" ELSE "returned"
    /\ decision' = ParseDecision(content).next
    /\ UNCHANGED <<content, gvars, rvars, lvars, bvars, svars>>

ParseSpec == ParseInit /\ [][ParseResponse]_vars

-----------------------------------------------------------------------------
(* utils.py 26-80: retry_with_backoff                                         *)
(* An error is its message, a sequence of words.  Delays are whole seconds.   *)

\* the keywords of line 58, as word sequences
RateLimitKeywords == { <<"429">>, <<"resource_exhausted">>, <<"rate", "limit">>, <<"quota">> }

\* str(e).lower()
LowerAll(msg) == [i \in 1..Len(msg) |-> Lower(msg[i])]

\* `keyword in error_str`
Contains(text, keyword) ==
    \E i \in 1..(Len(text) - Len(keyword) + 1) :
        SubSeq(text, i, i + Len(keyword) - 1) = keyword

\* lines 55-59
IsRateLimit(msg) == \E keyword \in RateLimitKeywords : Contains(LowerAll(msg), keyword)

\* (mutation) `and` in place of `or`
Reraise_And(msg, attempt, max_retries) == ~IsRateLimit(msg) /\ attempt >= max_retries

\* (mutation) the last attempt's rate-limit error is slept on as well
Reraise_Late(msg, attempt, max_retries) == ~IsRateLimit(msg) \/ attempt > max_retries

\* `if not is_rate_limit or attempt >= max_retries: raise`
Reraise(msg, attempt, max_retries) == ~IsRateLimit(msg) \/ attempt >= max_retries

RECURSIVE Pow2(_)
Pow2(n) == IF n <= 0 THEN 1 ELSE 2 * Pow2(n - 1)

Min(a, b) == IF a <= b THEN a ELSE b

\* line 65: min(base_delay * (2 ** attempt), max_delay)
Backoff(base_delay, attempt, max_delay) == Min(base_delay * Pow2(attempt), max_delay)

\* lines 66-67: the values random.uniform(0, delay * 0.3) is drawn from, cut to
\* whole seconds and to the two ends of the interval
JitterOf(delay) == IF delay > 0 THEN {0, (3 * delay) \div 10} ELSE {0}

\* the delay line 77 sleeps
SleepDelays(base_delay, attempt, max_delay, jitter) ==
    LET delay == Backoff(base_delay, attempt, max_delay)
    IN  IF jitter THEN { delay + j : j \in JitterOf(delay) } ELSE { delay }

\* the messages of the errors the wrapped call raises
ErrorMessages ==
    { <<"429", "Too", "Many", "Requests">>,
      <<"RESOURCE_EXHAUSTED">>,
      <<"Rate", "limit", "exceeded">>,
      <<"Quota", "exceeded">>,
      <<"Too", "Many", "Requests">>,
      <<"Connection", "reset">> }

\* `raise last_exception` with last_exception = None
NoneRaised == <<"TypeError", "exceptions", "must", "derive", "from", "BaseException">>

MaxRetries == 3
BaseDelays == {1, 15}
MaxDelays == {10, 20}

RetryInit ==
    /\ r_pc = "invoke"
    /\ r_max_retries \in (-1)..MaxRetries
    /\ r_base_delay \in BaseDelays
    /\ r_max_delay \in MaxDelays
    /\ r_jitter \in BOOLEAN
    /\ r_attempt = 0
    /\ r_invocations = 0
    /\ r_sleeps = <<>>
    /\ r_delay = 0
    /\ r_errors = <<>>
    /\ r_raised = <<>>
    /\ r_result = 0
    /\ GraphOff
    /\ ParseIdle
    /\ ReactIdle
    /\ OthersIdle

\* `for attempt in range(max_retries + 1)` has another iteration
InLoop == r_attempt <= r_max_retries

\* (mutation) the result is kept and the loop goes on
InvokeReturns_GoesOn ==
    /\ r_pc = "invoke" /\ InLoop
    /\ r_invocations' = r_invocations + 1
    /\ r_result' = r_invocations + 1
    /\ r_attempt' = r_attempt + 1
    /\ r_pc' = IF r_attempt < r_max_retries THEN "invoke" ELSE "returned"
    /\ UNCHANGED <<r_max_retries, r_base_delay, r_max_delay, r_jitter,
                   r_sleeps, r_delay, r_errors, r_raised, gvars, pvars, lvars, bvars, svars>>

\* line 54: func returns, and its result is returned at once
InvokeReturns ==
    /\ r_pc = "invoke" /\ InLoop
    /\ r_invocations' = r_invocations + 1
    /\ r_result' = r_invocations + 1
    /\ r_pc' = "returned"
    /\ UNCHANGED <<r_max_retries, r_base_delay, r_max_delay, r_jitter, r_attempt,
                   r_sleeps, r_delay, r_errors, r_raised, gvars, pvars, lvars, bvars, svars>>

\* lines 54-62: func raises `msg`, which is raised again
InvokeRaises ==
    /\ r_pc = "invoke" /\ InLoop
    /\ \E msg \in ErrorMessages :
          /\ Reraise(msg, r_attempt, r_max_retries)
          /\ r_errors' = Append(r_errors, msg)
          /\ r_raised' = msg
    /\ r_invocations' = r_invocations + 1
    /\ r_pc' = "raised"
    /\ UNCHANGED <<r_max_retries, r_base_delay, r_max_delay, r_jitter, r_attempt,
                   r_sleeps, r_delay, r_result, gvars, pvars, lvars, bvars, svars>>

\* lines 54-76: func raises `msg`, a delay is computed
InvokeBacksOff ==
    /\ r_pc = "invoke" /\ InLoop
    /\ \E msg \in ErrorMessages :
          /\ ~Reraise(msg, r_attempt, r_max_retries)
          /\ r_errors' = Append(r_errors, msg)
    /\ r_delay' \in SleepDelays(r_base_delay, r_attempt, r_max_delay, r_jitter)
    /\ r_invocations' = r_invocations + 1
    /\ r_pc' = "sleep"
    /\ UNCHANGED <<r_max_retries, r_base_delay, r_max_delay, r_jitter, r_attempt,
                   r_sleeps, r_raised, r_result, gvars, pvars, lvars, bvars, svars>>

\* line 77, and the loop's next iteration
Sleep ==
    /\ r_pc = "sleep"
    /\ r_sleeps' = Append(r_sleeps, r_delay)
    /\ r_attempt' = r_attempt + 1
    /\ r_pc' = "invoke"
    /\ UNCHANGED <<r_max_retries, r_base_delay, r_max_delay, r_jitter,
                   r_invocations, r_delay, r_errors, r_raised, r_result, gvars, pvars, lvars, bvars, svars>>

\* line 80, `raise last_exception`: last_exception is the error of the last
\* iteration that slept (line 64), None when the loop body never ran
\* (max_retries < 0)
LoopExhausted ==
    /\ r_pc = "invoke" /\ ~InLoop
    /\ r_raised' = IF r_errors = <<>> THEN NoneRaised ELSE r_errors[Len(r_errors)]
    /\ r_pc' = "raised"
    /\ UNCHANGED <<r_max_retries, r_base_delay, r_max_delay, r_jitter, r_attempt,
                   r_invocations, r_sleeps, r_delay, r_errors, r_result, gvars, pvars, lvars, bvars, svars>>

RetryNext ==
    \/ InvokeReturns
    \/ InvokeRaises
    \/ InvokeBacksOff
    \/ Sleep
    \/ LoopExhausted

RetrySpec == RetryInit /\ [][RetryNext]_vars

-----------------------------------------------------------------------------
(* nodes.py 46-153: tool dispatch, the ReAct loop and text extraction         *)
(* A text is a sequence of tokens, each standing for a piece of text of a     *)
(* known number of characters.  The content of a transcript entry is either   *)
(* a plain string or a list of typed blocks.                                  *)

\* lines 46-51
TOOL_REGISTRY ==
    {"search_geopolitical_news", "search_web_general",
     "search_corporate_disclosures", "get_market_data"}

\* line 127
Sentinel == <<"Analysis could not be completed.">>

\* the whitespace str.strip() removes
Whitespace == {" ", "\n", "\n\n"}

\* len() of the piece of text a token stands for
Chars(tok) ==
    CASE tok = "ANSWER" -> 200
      [] tok = "THOUGHT" -> 300
      [] tok = "TOOL_OUTPUT" -> 400
      [] tok = "prior-analysis-of-27-chars." -> 27
      [] tok = "prior-analysis-of-26-chars" -> 26
      [] tok = "brief" -> 5
      [] tok = "assess ACME" -> 11
      [] tok = "timeout" -> 7
      [] tok = "foo" -> 3
      [] tok = "get_market_data" -> 15
      [] tok = "search_web_general" -> 18
      [] tok = "{\"error\": \"Unknown tool: " -> 25
      [] tok = "{\"error\": \"Tool " -> 16
      [] tok = " failed: " -> 9
      [] tok = "\"}" -> 2
      [] tok = "[GEOPOLITICAL ANALYST]" -> 22
      [] tok = "[CREDIT RISK EVALUATOR]" -> 23
      [] tok = "[MARKET SYNTHESIZER]" -> 20
      [] tok = "GEOPOLITICAL_ANALYST_PROMPT" -> 1971
      [] tok = "CREDIT_RISK_EVALUATOR_PROMPT" -> 2084
      [] tok = "MARKET_SYNTHESIZER_PROMPT" -> 3329
      [] tok = "Analysis could not be completed." -> 32
      [] tok = "\n\n" -> 2
      [] OTHER -> 1

RECURSIVE TextLen(_)
TextLen(text) == IF text = <<>> THEN 0 ELSE Chars(Head(text)) + TextLen(Tail(text))

\* str.strip()
RECURSIVE LStrip(_)
LStrip(text) ==
    IF text # <<>> /\ Head(text) \in Whitespace THEN LStrip(Tail(text)) ELSE text

RECURSIVE RStrip(_)
RStrip(text) ==
    IF text # <<>> /\ text[Len(text)] \in Whitespace
    THEN RStrip(SubSeq(text, 1, Len(text) - 1))
    ELSE text

Strip(text) == RStrip(LStrip(text))

\* "\n".join(parts)
RECURSIVE JoinLines(_)
JoinLines(parts) ==
    IF parts = <<>> THEN <<>>
    ELSE IF Len(parts) = 1 THEN parts[1]
    ELSE parts[1] \o <<"\n">> \o JoinLines(Tail(parts))

\* content given as a string, and as a list of blocks
StrContent(text) == [form |-> "str", text |-> text]
ListContent(blocks) == [form |-> "list", blocks |-> blocks]

\* a dict block {"type": type, type_or_"text": payload}; type "str" stands for
\* a bare string inside the list
Block(type, payload) == [type |-> type, text |-> payload]

\* lines 142-151: the blocks whose text is collected into `parts`
KeptBlock(block) == block.type \in {"text", "str"} /\ Strip(block.text) # <<>>

\* (mutation) every block's payload is collected
ExtractText_AllBlocks(body) ==
    IF body.form = "str" THEN body.text
    ELSE JoinLines([i \in 1..Len(body.blocks) |-> body.blocks[i].text])

\* _extract_text (nodes.py 130-153, supervisor.py 32-48)
ExtractText(body) ==
    IF body.form = "str" THEN body.text
    ELSE LET kept == SelectSeq(body.blocks, KeptBlock)
         IN  JoinLines([i \in 1..Len(kept) |-> kept[i].text])

\* the entries of the working transcript; tool_calls = <<>> stands for an
\* absent as well as an empty tool_calls attribute (line 121 treats them alike)
SystemMessage(text) ==
    [type |-> "system", content |-> StrContent(text), tool_calls |-> <<>>,
     tool_call_id |-> ""]

ToolMessage(text, id) ==
    [type |-> "tool", content |-> StrContent(text), tool_calls |-> <<>>,
     tool_call_id |-> id]

AIMessage(body, tool_calls) ==
    [type |-> "ai", content |-> body, tool_calls |-> tool_calls,
     tool_call_id |-> ""]

\* an entry of AgentState.messages seen as an entry of the working transcript
FromState(m) ==
    [type |-> IF m.role = "user" THEN "human" ELSE "ai",
     content |-> StrContent(m.content), tool_calls |-> <<>>, tool_call_id |-> ""]

\* the prompt passed by each node (lines 165, 187, 210-214)
SystemPrompt(agent) ==
    CASE agent = "geopolitical_analyst" -> <<"GEOPOLITICAL_ANALYST_PROMPT">>
      [] agent = "credit_evaluator" -> <<"CREDIT_RISK_EVALUATOR_PROMPT">>
      [] agent = "market_synthesizer" -> <<"MARKET_SYNTHESIZER_PROMPT">>

\* lines 63-75: the content of the ToolMessage for one call; `outcome` is what
\* a registered tool does ("ok": returns, "raise": raises)
ToolResult(tool_call, outcome) ==
    IF tool_call.name \in TOOL_REGISTRY
    THEN IF outcome = "ok" THEN <<"TOOL_OUTPUT">>
         ELSE <<"{\"error\": \"Tool ", tool_call.name, " failed: ", "timeout", "\"}">>
    ELSE <<"{\"error\": \"Unknown tool: ", tool_call.name, "\"}">>

\* (mutation) calls naming an unregistered tool get no result
ExecuteToolCalls_DropUnknown(tool_calls, outcomes) ==
    LET known == { i \in 1..Len(tool_calls) : tool_calls[i].name \in TOOL_REGISTRY }
        pos(n) == CHOOSE i \in known : Cardinality({ j \in known : j <= i }) = n
    IN  [n \in 1..Cardinality(known) |->
            ToolMessage(ToolResult(tool_calls[pos(n)], outcomes[pos(n)]),
                        tool_calls[pos(n)].id)]

\* (mutation) results are appended in reverse order
ExecuteToolCalls_Reversed(tool_calls, outcomes) ==
    [i \in 1..Len(tool_calls) |->
        ToolMessage(ToolResult(tool_calls[Len(tool_calls) + 1 - i],
                               outcomes[Len(tool_calls) + 1 - i]),
                    tool_calls[Len(tool_calls) + 1 - i].id)]

\* _execute_tool_calls (lines 59-76): one ToolMessage per call, in order
ExecuteToolCalls(tool_calls, outcomes) ==
    [i \in 1..Len(tool_calls) |->
        ToolMessage(ToolResult(tool_calls[i], outcomes[i]), tool_calls[i].id)]

\* line 123
MinCandidateChars == 50

\* lines 121-123: msg is taken as the fallback answer
Candidate(msg) ==
    /\ msg.tool_calls = <<>>
    /\ Strip(ExtractText(msg.content)) # <<>>
    /\ TextLen(Strip(ExtractText(msg.content))) > MinCandidateChars

\* (mutation) the scan runs although final_text is not blank
FallbackText_Always(msgs, final_text) ==
    LET earlier == SubSeq(msgs, 1, Len(msgs) - 1)
        hits == { i \in 1..Len(earlier) : Candidate(earlier[i]) }
    IN  IF Len(msgs) > 1 /\ hits # {}
        THEN ExtractText(earlier[CHOOSE i \in hits : \A j \in hits : j <= i].content)
        ELSE final_text

\* lines 119-125: the text of the last entry of messages[:-1] that is taken,
\* the unchanged final_text if there is none
FallbackText(msgs, final_text) ==
    LET earlier == SubSeq(msgs, 1, Len(msgs) - 1)
        hits == { i \in 1..Len(earlier) : Candidate(earlier[i]) }
    IN  IF Strip(final_text) = <<>> /\ Len(msgs) > 1 /\ hits # {}
        THEN ExtractText(earlier[CHOOSE i \in hits : \A j \in hits : j <= i].content)
        ELSE final_text

\* `response = None` (line 93)
NoResponse ==
    [type |-> "none", content |-> StrContent(<<>>), tool_calls |-> <<>>,
     tool_call_id |-> ""]

\* (mutation) the sentinel is never substituted
FinalText_NoSentinel(msgs, response) ==
    FallbackText(msgs, IF response = NoResponse THEN <<>>
                       ELSE ExtractText(response.content))

\* lines 113-127: what _run_react_loop returns
FinalText(msgs, response) ==
    LET first == IF response = NoResponse THEN <<>> ELSE ExtractText(response.content)
        final_text == FallbackText(msgs, first)
    IN  IF Strip(final_text) # <<>> THEN final_text ELSE Sentinel

\* the update an agent node returns for the loop's result (lines 171-175,
\* 193-197, 219-231)
NodeUpdate(agent, final_content, count) ==
    IF agent = "market_synthesizer"
    THEN SynthesizerUpdate(final_content, count)
    ELSE AnalystUpdate(agent, final_content, count)

\* the contents of the responses of the reasoning service
ResponseContents ==
    { ListContent(<<Block("thinking", <<"THOUGHT">>), Block("text", <<"ANSWER">>)>>),
      ListContent(<<Block("thinking", <<"THOUGHT">>)>>),
      ListContent(<<Block("text", <<"brief">>), Block("text", <<" ">>),
                    Block("thinking", <<"THOUGHT">>), Block("text", <<"ANSWER">>)>>),
      StrContent(<<" ">>),
      StrContent(<<"brief">>) }

\* the tool calls a response requests
ToolCall(name, id) == [name |-> name, id |-> id]

ToolCallLists ==
    { <<>>,
      <<ToolCall("get_market_data", "call_1")>>,
      <<ToolCall("foo", "call_1"), ToolCall("search_web_general", "call_2")>> }

Responses == { AIMessage(c, t) : c \in ResponseContents, t \in ToolCallLists }

\* AgentState.messages when a node starts: the query, possibly followed by an
\* earlier agent's entry
StateTranscripts ==
    { <<HumanMessage("assess ACME")>>,
      <<HumanMessage("assess ACME"),
        AgentMessage("geopolitical_analyst", <<"prior-analysis-of-27-chars.">>)>>,
      <<HumanMessage("assess ACME"),
        AgentMessage("geopolitical_analyst", <<"prior-analysis-of-26-chars">>)>> }

\* system_prompt: the node's prompt, or a short one
SystemPrompts(agent) == { SystemPrompt(agent), <<"brief">> }

MaxIterations == 2

\* a node calls _run_react_loop; line 92 builds the working transcript
ReactInit ==
    /\ lp_agent \in Agents
    /\ lp_max_iterations \in 0..MaxIterations
    /\ messages \in StateTranscripts
    /\ \E prompt \in SystemPrompts(lp_agent) :
          lp_messages = <<SystemMessage(prompt)>>
                            \o [i \in 1..Len(messages) |-> FromState(messages[i])]
    /\ lp_pc = IF lp_max_iterations > 0 THEN "call" ELSE "extract"
    /\ lp_iteration = 0
    /\ lp_response = NoResponse
    /\ lp_llm_calls = 0
    /\ lp_dispatched = 0
    /\ lp_final_text = <<>>
    /\ pc = lp_agent
    /\ next_agent = lp_agent
    /\ risk_signals = <<>>
    /\ final_report = <<>>
    /\ iteration_count = 0
    /\ sup_evals = 0 /\ node_execs = 0 /\ sup_llm_calls = 0 /\ sup_path = "none"
    /\ ParseIdle
    /\ RetryIdle
    /\ OthersIdle

\* lines 97-107: the reasoning service answers without tool calls, `break`
LoopCallBreaks ==
    /\ lp_pc = "call"
    /\ \E response \in Responses :
          /\ response.tool_calls = <<>>
          /\ lp_response' = response
          /\ lp_messages' = Append(lp_messages, response)
    /\ lp_llm_calls' = lp_llm_calls + 1
    /\ lp_pc' = "extract"
    /\ UNCHANGED <<lp_agent, lp_max_iterations, lp_iteration, lp_dispatched,
                   lp_final_text, gvars, pvars, rvars, bvars, svars>>

\* lines 97-107: the reasoning service answers with tool calls
LoopCallRequestsTools ==
    /\ lp_pc = "call"
    /\ \E response \in Responses :
          /\ response.tool_calls # <<>>
          /\ lp_response' = response
          /\ lp_messages' = Append(lp_messages, response)
    /\ lp_llm_calls' = lp_llm_calls + 1
    /\ lp_pc' = "tools"
    /\ UNCHANGED <<lp_agent, lp_max_iterations, lp_iteration, lp_dispatched,
                   lp_final_text, gvars, pvars, rvars, bvars, svars>>

\* lines 97-102: retry_with_backoff raises; the exception leaves the loop and
\* the node, no update is applied
LoopCallRaises ==
    /\ lp_pc = "call"
    /\ lp_llm_calls' = lp_llm_calls + 1
    /\ lp_pc' = "raised"
    /\ pc' = "failed"
    /\ UNCHANGED <<lp_agent, lp_max_iterations, lp_messages, lp_iteration,
                   lp_response, lp_dispatched, lp_final_text, messages, next_agent,
                   risk_signals, final_report, iteration_count, sup_evals,
                   node_execs, sup_llm_calls, sup_path, pvars, rvars, bvars, svars>>

\* (mutation) the tool calls of the last permitted iteration are not executed
DispatchTools_SkipLast ==
    /\ lp_pc = "tools"
    /\ IF lp_iteration + 1 < lp_max_iterations
       THEN /\ \E outcomes \in [1..Len(lp_response.tool_calls) -> {"ok", "raise"}] :
                  lp_messages' = lp_messages
                                    \o ExecuteToolCalls(lp_response.tool_calls, outcomes)
            /\ lp_dispatched' = lp_dispatched + Len(lp_response.tool_calls)
            /\ lp_pc' = "call"
       ELSE /\ UNCHANGED <<lp_messages, lp_dispatched>>
            /\ lp_pc' = "extract"
    /\ lp_iteration' = lp_iteration + 1
    /\ UNCHANGED <<lp_agent, lp_max_iterations, lp_response, lp_llm_calls,
                   lp_final_text, gvars, pvars, rvars, bvars, svars>>

\* lines 109-111, and the loop's next iteration
DispatchTools ==
    /\ lp_pc = "tools"
    /\ \E outcomes \in [1..Len(lp_response.tool_calls) -> {"ok", "raise"}] :
          lp_messages' = lp_messages \o ExecuteToolCalls(lp_response.tool_calls, outcomes)
    /\ lp_dispatched' = lp_dispatched + Len(lp_response.tool_calls)
    /\ lp_iteration' = lp_iteration + 1
    /\ lp_pc' = IF lp_iteration + 1 < lp_max_iterations THEN "call" ELSE "extract"
    /\ UNCHANGED <<lp_agent, lp_max_iterations, lp_response, lp_llm_calls,
                   lp_final_text, gvars, pvars, rvars, bvars, svars>>

\* lines 113-127
LoopReturns ==
    /\ lp_pc = "extract"
    /\ lp_final_text' = FinalText(lp_messages, lp_response)
    /\ lp_pc' = "returned"
    /\ UNCHANGED <<lp_agent, lp_max_iterations, lp_messages, lp_iteration,
                   lp_response, lp_llm_calls, lp_dispatched, gvars, pvars, rvars, bvars, svars>>

\* the node returns its update for the loop's result
AgentNodeReturns ==
    /\ lp_pc = "returned"
    /\ pc = lp_agent
    /\ NodeReturns(NodeUpdate(lp_agent, lp_final_text, iteration_count))

ReactNext ==
    \/ LoopCallBreaks
    \/ LoopCallRequestsTools
    \/ LoopCallRaises
    \/ DispatchTools
    \/ LoopReturns
    \/ AgentNodeReturns

\* one execution of an agent node
ReactSpec == ReactInit /\ [][ReactNext]_vars

\* main.py 137, 154-156: the entries of the final shared transcript that the
\* provenance scan looks at, those that are tool results
ScannedToolResults(msgs) == SelectSeq(msgs, LAMBDA m : m.role = "tool")

\* the texts _run_react_loop returns to a node: never blank (line 127)
MaxTextLen == 4
FinalTexts ==
    { t \in SeqsUpTo({"preamble", report_marker, "report"}, MaxTextLen) : t # <<>> }

\* a node whose loop has just returned an arbitrary text
NodeInit ==
    /\ lp_agent \in Agents
    /\ lp_final_text \in FinalTexts
    /\ lp_pc = "returned"
    /\ lp_max_iterations = 0 /\ lp_messages = <<>> /\ lp_iteration = 0
    /\ lp_response = NoResponse /\ lp_llm_calls = 0 /\ lp_dispatched = 0
    /\ pc = lp_agent
    /\ next_agent = lp_agent
    /\ messages \in { <<HumanMessage(q)>> : q \in Queries }
    /\ risk_signals = <<>>
    /\ final_report = <<>>
    /\ iteration_count = 0
    /\ sup_evals = 0 /\ node_execs = 0 /\ sup_llm_calls = 0 /\ sup_path = "none"
    /\ ParseIdle
    /\ RetryIdle
    /\ OthersIdle

\* the part of an agent node that follows its loop
NodeSpec == NodeInit /\ [][AgentNodeReturns]_vars

-----------------------------------------------------------------------------
(* graph.py 44-117, main.py 69-99: building the graph, then running it        *)

\* build_graph (44-89): the wiring does not depend on the checkpointer, which
\* only enters the compile arguments (84-88)
BuildGraph(checkpointer) ==
    [entry |-> "supervisor",
     conditional |-> [c \in Agents \cup {"end"} |-> IF c = "end" THEN "END" ELSE c],
     edges |-> [a \in Agents |-> "supervisor"],
     checkpointer |-> checkpointer]

\* use_redis is False ("in_memory"); or it is True and the Redis saver works
\* ("redis"), cannot be imported ("no_module"), or fails to connect
\* ("no_connection")
Environments == {"in_memory", "redis", "no_module", "no_connection"}

BuildInit ==
    /\ b_pc = "start"
    /\ b_env \in Environments
    /\ b_graph = NoGraph
    /\ b_ctx = "none"
    /\ GraphOff
    /\ ParseIdle
    /\ RetryIdle
    /\ ReactIdle
    /\ StoreIdle

\* the build returns the graph compiled with `checkpointer`, leaving the
\* connection context in state `ctx`
BuildReturns(checkpointer, ctx) ==
    /\ b_graph' = BuildGraph(checkpointer)
    /\ b_pc' = "returned"
    /\ b_ctx' = ctx
    /\ UNCHANGED <<b_env, gvars, pvars, rvars, lvars, svars>>

\* main.py 72-75
BuildInMemory ==
    /\ b_pc = "start" /\ b_env = "in_memory"
    /\ BuildReturns("MemorySaver", "none")

\* graph.py 100-105: the context of line 102 is entered, the graph is compiled
\* inside it, and the `return` of line 105 leaves the `async with` block, so
\* the context is exited before the caller has the graph
BuildRedis ==
    /\ b_pc = "start" /\ b_env = "redis"
    /\ BuildReturns("AsyncRedisSaver", "exited")

\* graph.py 106-111: `except ImportError`
BuildImportError ==
    /\ b_pc = "start" /\ b_env = "no_module"
    /\ BuildReturns("MemorySaver", "none")

\* (mutation) the connection error is not caught
BuildConnectError_Raises ==
    /\ b_pc = "start" /\ b_env = "no_connection"
    /\ b_pc' = "raised"
    /\ UNCHANGED <<b_env, b_graph, b_ctx, gvars, pvars, rvars, lvars, svars>>

\* graph.py 112-117: `except Exception`
BuildConnectError ==
    /\ b_pc = "start" /\ b_env = "no_connection"
    /\ BuildReturns("MemorySaver", "none")

\* main.py 78-99: initial_state, and astream enters the graph
RunStarts ==
    /\ b_pc = "returned" /\ pc = "off"
    /\ pc' = b_graph.entry
    /\ messages' \in { <<HumanMessage(q)>> : q \in Queries }
    /\ UNCHANGED <<next_agent, risk_signals, final_report, iteration_count,
                   sup_evals, node_execs, sup_llm_calls, sup_path,
                   pvars, rvars, lvars, bvars, svars>>

BuildNext ==
    \/ BuildInMemory
    \/ BuildRedis
    \/ BuildImportError
    \/ BuildConnectError
    \/ RunStarts
    \/ SupervisorGuard
    \/ SupervisorPipeline
    \/ SupervisorAdaptive
    \/ SupervisorRaises
    \/ geopolitical_analyst_node
    \/ credit_evaluator_node
    \/ market_synthesizer_node
    \/ NodeRaises

\* run_analysis from its first line
BuildSpec == BuildInit /\ [][BuildNext]_vars

-----------------------------------------------------------------------------
(* tools/rag_pipeline.py 119-144: the lazily initialised vector store         *)
(* search_corporate_disclosures is a synchronous tool: runs that go on in     *)
(* parallel call _get_store from different threads, which interleave between  *)
(* any two statements.  A handle is the number of the construction that made  *)
(* it.                                                                        *)

NumThreads == 2
Threads == 1..NumThreads

\* the calls wait to start; the persisted collection holds documents or not
StoreInit ==
    /\ s_pc = [t \in Threads |-> "call"]
    /\ s_vectorstore = 0
    /\ s_local = [t \in Threads |-> 0]
    /\ s_saw_empty = [t \in Threads |-> FALSE]
    /\ s_returned = [t \in Threads |-> 0]
    /\ s_constructed = 0
    /\ s_seeds = 0
    /\ s_collection \in {0, 1}
    /\ GraphOff
    /\ ParseIdle
    /\ RetryIdle
    /\ ReactIdle
    /\ BuildIdle

\* line 142: `if _vectorstore is None`
StoreCheck(t) ==
    /\ s_pc[t] = "call"
    /\ s_pc' = [s_pc EXCEPT ![t] = IF s_vectorstore = 0 THEN "construct" ELSE "return"]
    /\ UNCHANGED <<s_vectorstore, s_local, s_saw_empty, s_returned, s_constructed,
                   s_seeds, s_collection, gvars, pvars, rvars, lvars, bvars>>

\* lines 121-126: a Chroma handle on the persisted collection
StoreConstruct(t) ==
    /\ s_pc[t] = "construct"
    /\ s_constructed' = s_constructed + 1
    /\ s_local' = [s_local EXCEPT ![t] = s_constructed + 1]
    /\ s_pc' = [s_pc EXCEPT ![t] = "get"]
    /\ UNCHANGED <<s_vectorstore, s_saw_empty, s_returned, s_seeds, s_collection,
                   gvars, pvars, rvars, lvars, bvars>>

\* lines 129-130: existing = vectorstore.get(); is the collection empty
StoreGetExisting(t) ==
    /\ s_pc[t] = "get"
    /\ s_saw_empty' = [s_saw_empty EXCEPT ![t] = (s_collection = 0)]
    /\ s_pc' = [s_pc EXCEPT ![t] = "seed"]
    /\ UNCHANGED <<s_vectorstore, s_local, s_returned, s_constructed, s_seeds,
                   s_collection, gvars, pvars, rvars, lvars, bvars>>

\* lines 130-133: add_documents(SAMPLE_DOCUMENTS) if it was empty
StoreSeed(t) ==
    /\ s_pc[t] = "seed"
    /\ s_seeds' = IF s_saw_empty[t] THEN s_seeds + 1 ELSE s_seeds
    /\ s_collection' = IF s_saw_empty[t] THEN s_collection + 1 ELSE s_collection
    /\ s_pc' = [s_pc EXCEPT ![t] = "assign"]
    /\ UNCHANGED <<s_vectorstore, s_local, s_saw_empty, s_returned, s_constructed,
                   gvars, pvars, rvars, lvars, bvars>>

\* line 143: _vectorstore = the handle _initialize_vector_store returned
StoreAssign(t) ==
    /\ s_pc[t] = "assign"
    /\ s_vectorstore' = s_local[t]
    /\ s_pc' = [s_pc EXCEPT ![t] = "return"]
    /\ UNCHANGED <<s_local, s_saw_empty, s_returned, s_constructed, s_seeds,
                   s_collection, gvars, pvars, rvars, lvars, bvars>>

\* line 144: return _vectorstore
StoreReturn(t) ==
    /\ s_pc[t] = "return"
    /\ s_returned' = [s_returned EXCEPT ![t] = s_vectorstore]
    /\ s_pc' = [s_pc EXCEPT ![t] = "done"]
    /\ UNCHANGED <<s_vectorstore, s_local, s_saw_empty, s_constructed, s_seeds,
                   s_collection, gvars, pvars, rvars, lvars, bvars>>

Check == \E t \in Threads : StoreCheck(t)
Construct == \E t \in Threads : StoreConstruct(t)
GetExisting == \E t \in Threads : StoreGetExisting(t)
Seed == \E t \in Threads : StoreSeed(t)
Assign == \E t \in Threads : StoreAssign(t)
Return == \E t \in Threads : StoreReturn(t)

StoreNext ==
    \/ Check
    \/ Construct
    \/ GetExisting
    \/ Seed
    \/ Assign
    \/ Return

\* concurrent first calls of _get_store
StoreSpec == StoreInit /\ [][StoreNext]_vars

-----------------------------------------------------------------------------
(* Properties of a run (Spec, LiveSpec) *)

\* the three required agents are the first three entries of risk_signals, in order
AllReported(signals) ==
    /\ Len(signals) >= Len(REQUIRED_PIPELINE)
    /\ \A k \in 1..Len(REQUIRED_PIPELINE) : signals[k].agent = REQUIRED_PIPELINE[k]

\* C1: the first three records of risk_signals come from geopolitical_analyst,
\* credit_evaluator and market_synthesizer in that order, and the supervisor
\* takes its adaptive path (calls the reasoning service) only once all three
\* are present.
C1_PipelineBeforeAdaptive ==
    /\ [](\A k \in 1..Len(risk_signals) :
              k <= Len(REQUIRED_PIPELINE) => risk_signals[k].agent = REQUIRED_PIPELINE[k])
    /\ [][(sup_evals' # sup_evals /\ (sup_llm_calls' # sup_llm_calls \/ sup_path' = "adaptive"))
            => AllReported(risk_signals)]_vars

C1_Witness ==
    /\ sup_llm_calls >= 1
    /\ Len(risk_signals) = 4
    /\ risk_signals[4].agent = "geopolitical_analyst"

\* C2: iteration_count never exceeds the ceiling; a supervisor evaluation at
\* the ceiling decides FINISH and ends the run, so no agent node executes once
\* the ceiling is reached.
C2_CeilingRespected ==
    /\ [](iteration_count <= IterationCeiling)
    /\ [][(pc = "supervisor" /\ iteration_count = IterationCeiling)
            => (next_agent' = FINISH /\ pc' = "end")]_vars
    /\ [][iteration_count >= IterationCeiling => node_execs' = node_execs]_vars

C2_Witness ==
    /\ pc = "end"
    /\ iteration_count = IterationCeiling
    /\ sup_path = "guard"
    /\ next_agent = FINISH

\* C3: when no call exhausts its retries, every run reaches graph end, after
\* at most 10 agent node executions and at most 11 supervisor evaluations,
\* whatever the routing responses are.
C3_RunTerminates ==
    /\ <>(pc = "end")
    /\ [](node_execs <= 10 /\ sup_evals <= 11)

C3_Witness ==
    /\ pc = "end"
    /\ node_execs = 10
    /\ sup_evals = 11
    /\ \A k \in 4..Len(risk_signals) : risk_signals[k].agent = "credit_evaluator"

\* C19: each completed agent node execution appends exactly one transcript
\* entry, attributed to the agent and made of its label followed by its final
\* text, appends exactly one {agent, analysis} record carrying that text to
\* risk_signals, and increases iteration_count by exactly 1.
C19_NodeUpdateExact ==
    [][ (pc \in Agents /\ pc' = "supervisor") =>
          LET k == Len(risk_signals')
              n == Len(messages')
          IN  /\ n = Len(messages) + 1
              /\ SubSeq(messages', 1, n - 1) = messages
              /\ k = Len(risk_signals) + 1
              /\ SubSeq(risk_signals', 1, k - 1) = risk_signals
              /\ DOMAIN risk_signals'[k] = {"agent", "analysis"}
              /\ risk_signals'[k].agent = pc
              /\ risk_signals'[k].analysis # <<>>
              /\ messages'[n].name = pc
              /\ messages'[n].role = "assistant"
              /\ messages'[n].content = <<Label(pc), "\n\n">> \o risk_signals'[k].analysis
              /\ iteration_count' = iteration_count + 1
    ]_vars

C19_Witness ==
    /\ pc = "supervisor"
    /\ node_execs = 2
    /\ iteration_count = 2
    /\ Len(messages) = 3
    /\ messages[3].name = "credit_evaluator"
    /\ messages[3].content = <<"[CREDIT RISK EVALUATOR]", "\n\n", "credit-analysis">>
    /\ risk_signals = << [agent |-> "geopolitical_analyst", analysis |-> <<"geo-analysis">>],
                         [agent |-> "credit_evaluator", analysis |-> <<"credit-analysis">>] >>

\* C20 (as stated): final_report is written only by market_synthesizer and
\* exactly once: once set, no later step changes its value.
C20_ReportWrittenOnce ==
    [][ final_report' # final_report =>
          pc = "market_synthesizer" /\ final_report = <<>> ]_vars

\* C20 (amended): final_report is written only by market_synthesizer: each of
\* its completed executions sets final_report to the report of that
\* execution, replacing an earlier one, and no other step changes it.
C20_ReportOnlyBySynthesizer ==
    [][ /\ final_report' # final_report => pc = "market_synthesizer"
        /\ (pc = "market_synthesizer" /\ pc' = "supervisor") =>
              /\ final_report' = risk_signals'[Len(risk_signals')].analysis
              /\ risk_signals'[Len(risk_signals')].agent = "market_synthesizer"
    ]_vars

C20_Witness ==
    /\ Len(risk_signals) = 4
    /\ risk_signals[3] = [agent |-> "market_synthesizer", analysis |-> <<"plain-report">>]
    /\ risk_signals[4] = [agent |-> "market_synthesizer", analysis |-> <<"===", "report">>]
    /\ final_report = <<"===", "report">>

-----------------------------------------------------------------------------
(* Properties of supervisor_node on an arbitrary state (SupSpec) *)

\* C4: with iteration_count >= 10 supervisor_node returns FINISH without
\* calling the reasoning service, whatever risk_signals and the transcript
\* hold.
C4_GuardFirst ==
    [][(pc = "supervisor" /\ iteration_count >= 10)
         => /\ next_agent' = FINISH
            /\ pc' = "end"
            /\ sup_llm_calls' = sup_llm_calls
            /\ sup_path' = "guard"]_vars

C4_Witness ==
    /\ sup_evals = 1
    /\ iteration_count >= 10
    /\ risk_signals = <<>>
    /\ Len(messages) = 2
    /\ next_agent = FINISH
    /\ sup_llm_calls = 0

\* the first agent of the pipeline that has no record in `signals`
FirstAbsent(signals) ==
    LET reported == { signals[i].agent : i \in 1..Len(signals) }
    IN  IF "geopolitical_analyst" \notin reported THEN "geopolitical_analyst"
        ELSE IF "credit_evaluator" \notin reported THEN "credit_evaluator"
        ELSE IF "market_synthesizer" \notin reported THEN "market_synthesizer"
        ELSE "none"

\* C5: with iteration_count < 10 and a required agent absent from
\* risk_signals, supervisor_node returns the first absent agent of the
\* pipeline, never FINISH, without calling the reasoning service; the initial
\* state yields geopolitical_analyst.
C5_DeterministicPhase ==
    [][(pc = "supervisor" /\ iteration_count < 10 /\ FirstAbsent(risk_signals) # "none")
         => /\ next_agent' = FirstAbsent(risk_signals)
            /\ next_agent' # FINISH
            /\ pc' = next_agent'
            /\ sup_llm_calls' = sup_llm_calls
            /\ (risk_signals = <<>> => next_agent' = "geopolitical_analyst")]_vars

C5_Witness ==
    /\ sup_evals = 1
    /\ iteration_count < 10
    /\ Len(risk_signals) = 2
    /\ risk_signals[1].agent = "market_synthesizer"
    /\ risk_signals[2].agent = "geopolitical_analyst"
    /\ next_agent = "credit_evaluator"
    /\ sup_llm_calls = 0

-----------------------------------------------------------------------------
(* Properties of the routing-response parsing (ParseSpec) *)

\* c[i..j] reads "{", members, "}"
IsObjectAt(c, i, j) ==
    /\ 1 <= i /\ i < j /\ j <= Len(c)
    /\ c[i] = LB
    /\ c[j] = RB
    /\ \A k \in (i + 1)..(j - 1) : c[k].kind = "pair"

\* the value of the "next" member of the object at c[i..j] is the option `o`
NextIs(c, i, j, o) ==
    \E k \in (i + 1)..(j - 1) :
        /\ c[k] = Pair("next", o, TRUE)
        /\ \A m \in (k + 1)..(j - 1) : c[m].key # "next"

\* the objects embedded in c whose "next" is a known option
KnownObjects(c) ==
    { t \in (1..Len(c)) \X (1..Len(c)) \X Range(AGENT_OPTIONS) :
          IsObjectAt(c, t[1], t[2]) /\ NextIs(c, t[1], t[2], t[3]) }

\* c embeds no well-formed JSON object
NoObject(c) == \A i, j \in 1..Len(c) : ~IsObjectAt(c, i, j)

\* the options whose name occurs in c, case-insensitively
OptionsNamed(c) == { o \in Range(AGENT_OPTIONS) : OccursIn(o, c) }

\* C6: a response with no parseable JSON payload (a response without any "{"
\* included) resolves to an option whose name occurs case-insensitively in
\* the text, and to FINISH only when no option name occurs.
C6_SubstringFallback ==
    (parsed = "returned" /\ NoObject(content))
        => \/ decision \in OptionsNamed(content)
           \/ (decision = FINISH /\ OptionsNamed(content) = {})

\* C7 as stated: whenever the response embeds a well-formed JSON object whose
\* "next" is a known option, the decision is that option.
C7_EmbeddedObjectDecides ==
    parsed = "returned" => \A t \in KnownObjects(content) : decision = t[3]

\* C7 as amended: when the text from the first "{" to the last "}" of the
\* response is a well-formed JSON object whose "next" is a known option, the
\* decision is that option, whatever option names occur before the first "{"
\* and after the last "}".
C7_SpanDecides ==
    parsed = "returned" =>
        \A i \in 1..Len(content) :
            (content[i] = LB /\ \A k \in 1..(i - 1) : content[k] # LB) =>
                \A j \in (i + 1)..Len(content) :
                    (/\ content[j] = RB
                     /\ \A k \in (j + 1)..Len(content) : content[k] # RB
                     /\ IsObjectAt(content, i, j)) =>
                        \A o \in Range(AGENT_OPTIONS) :
                            NextIs(content, i, j, o) => decision = o

C7_Witness ==
    /\ parsed = "returned"
    /\ content = <<Word("credit_evaluator"), LB,
                   Pair("next", "market_synthesizer", TRUE), RB, Word("credit_evaluator")>>
    /\ decision = "market_synthesizer"

-----------------------------------------------------------------------------
(* Properties of retry_with_backoff (RetrySpec) *)

\* C9: an error that is not classified as a rate limit propagates at once: it
\* is the last error, it is the one raised, no sleep follows it and no
\* invocation follows it; every sleep follows a rate-limit error.  On the
\* first attempt this means one invocation and no retry.
C9_RetryOnlyOnRateLimit ==
    /\ \A i \in 1..Len(r_errors) :
          ~IsRateLimit(r_errors[i]) =>
              /\ i = Len(r_errors)
              /\ r_pc = "raised"
              /\ r_raised = r_errors[i]
              /\ r_invocations = i
              /\ Len(r_sleeps) = i - 1
    /\ \A k \in 1..Len(r_sleeps) : k <= Len(r_errors) /\ IsRateLimit(r_errors[k])

C9_Witness ==
    /\ r_pc = "raised"
    /\ Len(r_errors) = 3
    /\ r_raised = <<"Connection", "reset">>
    /\ r_invocations = 3
    /\ Len(r_sleeps) = 2
    /\ r_max_retries = 3

\* C10: the delays slept are non-decreasing and none exceeds max_delay, with
\* jitter enabled as well as disabled.
C10_DelaysNonDecreasingCapped ==
    \A i \in 1..Len(r_sleeps) :
        /\ r_sleeps[i] <= r_max_delay
        /\ (i > 1 => r_sleeps[i - 1] <= r_sleeps[i])

\* C11: when every invocation fails with a rate-limit error and
\* max_retries >= 0, the wrapper ends by raising, after exactly
\* max_retries + 1 invocations and exactly max_retries sleeps, and what it
\* raises is the error of the last invocation.
C11_ExhaustionRaisesLast ==
    (/\ r_pc \in {"raised", "returned"}
     /\ r_max_retries >= 0
     /\ Len(r_errors) = r_invocations
     /\ \A i \in 1..Len(r_errors) : IsRateLimit(r_errors[i]))
        => /\ r_pc = "raised"
           /\ r_invocations = r_max_retries + 1
           /\ Len(r_sleeps) = r_max_retries
           /\ r_raised = r_errors[r_invocations]

C11_Witness ==
    /\ r_pc = "raised"
    /\ r_max_retries = 3
    /\ r_errors = << <<"Quota", "exceeded">>, <<"RESOURCE_EXHAUSTED">>,
                     <<"Rate", "limit", "exceeded">>, <<"429", "Too", "Many", "Requests">> >>
    /\ r_invocations = 4
    /\ Len(r_sleeps) = 3
    /\ r_raised = <<"429", "Too", "Many", "Requests">>

\* C12: an error whose message says "Too Many Requests", without 429, quota,
\* resource_exhausted or "rate limit", is retried under backoff: raised on the
\* first attempt it is followed by a sleep whenever a retry remains.
C12_TooManyRequestsRetried ==
    (/\ r_pc = "raised"
     /\ r_errors = << <<"Too", "Many", "Requests">> >>)
        => r_max_retries = 0

-----------------------------------------------------------------------------
(* Properties of _run_react_loop and of the node around it (ReactSpec) *)

\* position in the working transcript of the loop's first response
FirstResponseAt ==
    IF pc = "supervisor" THEN Len(messages) + 1 ELSE Len(messages) + 2

\* the loop has returned and its first response requested no tool call
FirstResponseToolFree ==
    /\ lp_pc = "returned"
    /\ Len(lp_messages) >= FirstResponseAt
    /\ lp_messages[FirstResponseAt].tool_calls = <<>>

\* the payloads of the non-blank blocks of type "text", one after the other
RECURSIVE TextBlocks(_)
TextBlocks(blocks) ==
    IF blocks = <<>> THEN <<>>
    ELSE (IF Head(blocks).type = "text" /\ \E i \in 1..Len(Head(blocks).text) :
                                               Head(blocks).text[i] \notin Whitespace
          THEN Head(blocks).text ELSE <<>>) \o TextBlocks(Tail(blocks))

\* the visible text of a response: its string, or its text blocks
VisibleText(msg) ==
    IF msg.content.form = "str" THEN msg.content.text
    ELSE TextBlocks(msg.content.blocks)

\* a text without the line breaks that join its parts
Unjoined(text) == SelectSeq(text, LAMBDA tok : tok # "\n")

IsBlankText(text) == \A i \in 1..Len(text) : text[i] \in Whitespace

\* C13 (as stated): when the first response requests no tool call, the loop
\* makes exactly one reasoning-service call, dispatches no tool and returns
\* exactly the visible text of that response, whatever the response.
C13_ToolFreeReturnsVisibleText ==
    FirstResponseToolFree =>
        /\ lp_llm_calls = 1
        /\ lp_dispatched = 0
        /\ Unjoined(lp_final_text) = VisibleText(lp_messages[FirstResponseAt])

\* C13 (amended): when the first response requests no tool call, the loop
\* makes exactly one reasoning-service call and dispatches no tool; when the
\* visible text of that response is not blank, it is exactly what the loop
\* returns.
C13_ToolFreeReturnsNonBlankText ==
    FirstResponseToolFree =>
        /\ lp_llm_calls = 1
        /\ lp_dispatched = 0
        /\ lp_response = lp_messages[FirstResponseAt]
        /\ Len(lp_messages) = FirstResponseAt
        /\ ~IsBlankText(VisibleText(lp_response))
              => Unjoined(lp_final_text) = VisibleText(lp_response)

C13_Witness ==
    /\ lp_pc = "returned"
    /\ lp_max_iterations = 2
    /\ lp_llm_calls = 1
    /\ lp_dispatched = 0
    /\ lp_response = AIMessage(ListContent(<<Block("thinking", <<"THOUGHT">>),
                                             Block("text", <<"ANSWER">>)>>), <<>>)
    /\ lp_final_text = <<"ANSWER">>

\* the responses the loop received so far
LoopResponses ==
    { i \in FirstResponseAt..Len(lp_messages) : lp_messages[i].type = "ai" }

\* C14: when every response requests at least one tool call, the loop makes
\* exactly max_iterations reasoning-service calls and then returns the last
\* response's visible text, or the sentinel when that text is empty.
C14_BudgetExhaustedOutput ==
    (/\ lp_pc = "returned"
     /\ lp_max_iterations >= 1
     /\ \A i \in LoopResponses : lp_messages[i].tool_calls # <<>>)
        => /\ lp_llm_calls = lp_max_iterations
           /\ Unjoined(lp_final_text) =
                 IF IsBlankText(VisibleText(lp_response))
                 THEN <<"Analysis could not be completed.">>
                 ELSE VisibleText(lp_response)

\* the earlier responses that have no tool call and more than 50 characters
\* of visible text
SubstantiveResponses ==
    { i \in 1..Len(lp_messages) :
        /\ lp_messages[i].type = "ai"
        /\ lp_messages[i].tool_calls = <<>>
        /\ lp_messages[i] # lp_response
        /\ TextLen(Strip(VisibleText(lp_messages[i]))) > 50 }

\* C15: when the candidate text is blank, the output is the visible text of
\* the most recent earlier response without tool calls and longer than 50
\* characters, and the sentinel when there is none; a system entry, a tool
\* result or a message of the user is never the output.
C15_FallbackOnlyResponses ==
    (/\ lp_pc = "returned"
     /\ IsBlankText(IF lp_response = NoResponse THEN <<>> ELSE VisibleText(lp_response)))
        => lp_final_text =
              IF SubstantiveResponses = {}
              THEN <<"Analysis could not be completed.">>
              ELSE VisibleText(lp_messages[CHOOSE i \in SubstantiveResponses :
                                              \A j \in SubstantiveResponses : j <= i])

\* the payloads of the blocks of a response that are not of type "text"
HiddenPayloads(msg) ==
    IF msg.content.form = "str" THEN {}
    ELSE UNION { Range(msg.content.blocks[i].text) :
                    i \in { j \in 1..Len(msg.content.blocks) :
                                msg.content.blocks[j].type # "text" } }

\* every hidden payload of the responses of the working transcript
AllHiddenPayloads == UNION { HiddenPayloads(lp_messages[i]) : i \in LoopResponses }

IsErrorResult(msg) ==
    /\ msg.type = "tool"
    /\ msg.content.form = "str"
    /\ msg.content.text # <<>>
    /\ msg.content.text[1] \in {"{\"error\": \"Unknown tool: ", "{\"error\": \"Tool "}

\* C17: dispatching tool calls never raises and never ends the loop early: a
\* call naming an unregistered tool gets a structured error result (and so
\* does a call whose tool raises: every result is the tool's output or a
\* structured error), and while iterations remain the next step is a
\* reasoning-service call made with those results in the working transcript.
C17_ToolErrorsFedBack ==
    [][ lp_pc = "tools" =>
          LET calls == lp_response.tool_calls
              n == Len(lp_messages)
          IN  /\ lp_pc' \in {"call", "extract"}
              /\ pc' = pc
              /\ lp_iteration + 1 < lp_max_iterations => lp_pc' = "call"
              /\ Len(lp_messages') = n + Len(calls)
              /\ \A i \in 1..Len(calls) :
                    /\ lp_messages'[n + i].tool_call_id = calls[i].id
                    /\ \/ IsErrorResult(lp_messages'[n + i])
                       \/ /\ calls[i].name \in TOOL_REGISTRY
                          /\ lp_messages'[n + i].content.text = <<"TOOL_OUTPUT">>
                    /\ calls[i].name \notin TOOL_REGISTRY
                          => /\ IsErrorResult(lp_messages'[n + i])
                             /\ calls[i].name \in Range(lp_messages'[n + i].content.text)
    ]_vars

C17_Witness ==
    /\ lp_pc = "call"
    /\ lp_llm_calls = 1
    /\ lp_iteration = 1
    /\ Len(lp_messages) >= 3
    /\ lp_messages[Len(lp_messages) - 1]
          = ToolMessage(<<"{\"error\": \"Unknown tool: ", "foo", "\"}">>, "call_1")
    /\ lp_messages[Len(lp_messages)]
          = ToolMessage(<<"{\"error\": \"Tool ", "search_web_general", " failed: ",
                          "timeout", "\"}">>, "call_2")

\* C18: for a response carrying k tool calls, exactly k tool results are
\* appended before the next reasoning-service call, the i-th carrying the
\* identifier of the i-th call; nothing else of the transcript changes.
C18_OneResultPerCallInOrder ==
    [][ /\ lp_pc = "tools" =>
              LET calls == lp_response.tool_calls
                  n == Len(lp_messages)
              IN  /\ lp_llm_calls' = lp_llm_calls
                  /\ Len(lp_messages') = n + Len(calls)
                  /\ SubSeq(lp_messages', 1, n) = lp_messages
                  /\ \A i \in 1..Len(calls) :
                        /\ lp_messages'[n + i].type = "tool"
                        /\ lp_messages'[n + i].tool_call_id = calls[i].id
        /\ (lp_llm_calls' # lp_llm_calls /\ lp_response # NoResponse) =>
              LET calls == lp_response.tool_calls
                  n == Len(lp_messages) - Len(calls)
              IN  /\ n >= 1
                  /\ lp_messages[n] = lp_response
                  /\ \A i \in 1..Len(calls) :
                        /\ lp_messages[n + i].type = "tool"
                        /\ lp_messages[n + i].tool_call_id = calls[i].id
    ]_vars

C18_Witness ==
    /\ lp_llm_calls = 2
    /\ lp_dispatched >= 2
    /\ \E n \in 1..(Len(lp_messages) - 3) :
          /\ lp_messages[n].tool_calls
                = <<ToolCall("foo", "call_1"), ToolCall("search_web_general", "call_2")>>
          /\ lp_messages[n + 1].tool_call_id = "call_1"
          /\ lp_messages[n + 2].tool_call_id = "call_2"
          /\ lp_messages[n + 2].content.text = <<"TOOL_OUTPUT">>
          /\ lp_messages[n + 3].type = "ai"

-----------------------------------------------------------------------------
(* Properties of the part of a node that follows its loop (NodeSpec) *)

\* positions of the report-start delimiter in the loop's final text
MarkerAt == { i \in 1..Len(lp_final_text) : lp_final_text[i] = "===" }

\* C21: market_synthesizer writes final_report as the loop's final text
\* without what precedes the first report-start delimiter, so that
\* final_report starts with the delimiter when there is one; without a
\* delimiter final_report is the whole final text; the node returns (no
\* error) either way.
C21_PreambleTrimmed ==
    [][ (pc = "market_synthesizer" /\ lp_pc = "returned") =>
          /\ pc' = "supervisor"
          /\ MarkerAt = {} => final_report' = lp_final_text
          /\ MarkerAt # {} =>
                \E i \in MarkerAt :
                    /\ \A j \in MarkerAt : i <= j
                    /\ final_report' = SubSeq(lp_final_text, i, Len(lp_final_text))
                    /\ final_report'[1] = "==="
    ]_vars

C21_Witness ==
    /\ pc = "supervisor"
    /\ lp_agent = "market_synthesizer"
    /\ lp_final_text = <<"preamble", "===", "report", "===">>
    /\ final_report = <<"===", "report", "===">>

-----------------------------------------------------------------------------
(* Further properties of a run (Spec) *)

\* C22: a run starts with the supervisor; supervisor evaluations and agent
\* node executions alternate; the node that runs after a supervisor
\* evaluation is the one its next_agent names; the run ends exactly when a
\* supervisor evaluation emits FINISH, so the last step is a supervisor step.
C22_StrictAlternation ==
    [][ /\ (sup_evals = 0 /\ node_execs = 0) => pc = "supervisor"
        /\ pc \in {"supervisor"} \cup Agents
        /\ (pc = "supervisor" /\ pc' # "failed") =>
              /\ sup_evals' = sup_evals + 1
              /\ node_execs' = node_execs
              /\ sup_evals = node_execs
              /\ next_agent' \in Agents \cup {"FINISH"}
              /\ next_agent' \in Agents => pc' = next_agent'
              /\ next_agent' = "FINISH" <=> pc' = "end"
        /\ (pc \in Agents /\ pc' # "failed") =>
              /\ pc' = "supervisor"
              /\ pc = next_agent
              /\ node_execs' = node_execs + 1
              /\ sup_evals' = sup_evals
              /\ sup_evals = node_execs + 1
    ]_vars

C22_Witness ==
    /\ pc = "end"
    /\ next_agent = "FINISH"
    /\ sup_evals = 6
    /\ node_execs = 5
    /\ risk_signals[4].agent = "credit_evaluator"
    /\ risk_signals[5].agent = "geopolitical_analyst"

\* s is a prefix of t
PrefixOf(s, t) == Len(s) <= Len(t) /\ SubSeq(t, 1, Len(s)) = s

\* C23: across every step of a run the transcript and risk_signals only grow
\* at the end (the old value is a prefix of the new one) and iteration_count
\* never decreases: it grows by exactly one per agent node execution and by
\* zero per supervisor evaluation.
C23_AppendOnly ==
    [][ /\ PrefixOf(messages, messages')
        /\ PrefixOf(risk_signals, risk_signals')
        /\ iteration_count' >= iteration_count
        /\ node_execs' = node_execs + 1 => iteration_count' = iteration_count + 1
        /\ sup_evals' = sup_evals + 1 => iteration_count' = iteration_count
        /\ iteration_count = node_execs
    ]_vars

C23_Witness ==
    /\ pc = "supervisor"
    /\ sup_evals = 5
    /\ node_execs = 5
    /\ iteration_count = 5
    /\ Len(risk_signals) = 5
    /\ Len(messages) = 6
    /\ risk_signals[1].agent = "geopolitical_analyst"
    /\ risk_signals[5].agent = "market_synthesizer"

\* C24: next_agent is changed only by supervisor evaluations: an agent node
\* leaves it as it is, and a supervisor evaluation, on its guard, pipeline
\* and adaptive paths alike, writes next_agent and leaves the transcript,
\* risk_signals, iteration_count and final_report unchanged.
C24_RoutingOnlyBySupervisor ==
    [][ /\ next_agent' # next_agent => pc = "supervisor"
        /\ pc \in Agents => next_agent' = next_agent
        /\ (pc = "supervisor" /\ pc' # "failed") =>
              /\ sup_path' \in {"guard", "pipeline", "adaptive"}
              /\ next_agent' \in Agents \cup {"FINISH"}
              /\ messages' = messages
              /\ risk_signals' = risk_signals
              /\ iteration_count' = iteration_count
              /\ final_report' = final_report
    ]_vars

C24_Witness ==
    /\ sup_path = "guard"
    /\ pc = "end"
    /\ next_agent = "FINISH"
    /\ iteration_count = 10
    /\ Len(risk_signals) = 10
    /\ final_report # <<>>

\* C25: when a step fails fatally (the supervisor's adaptive call or an agent
\* node's loop raises), the run stops with the exception and nothing of the
\* failing step is applied: transcript, risk_signals, iteration_count,
\* final_report and next_agent are as before the step, and no step follows.
C25_FailureAppliesNothing ==
    [][ /\ pc # "failed"
        /\ pc' = "failed" =>
              /\ pc \in Agents \/ (/\ pc = "supervisor"
                                  /\ iteration_count < 10
                                  /\ \A a \in Agents :
                                        \E k \in 1..Len(risk_signals) :
                                            risk_signals[k].agent = a)
              /\ messages' = messages
              /\ risk_signals' = risk_signals
              /\ iteration_count' = iteration_count
              /\ final_report' = final_report
              /\ next_agent' = next_agent
              /\ node_execs' = node_execs
    ]_vars

C25_Witness ==
    /\ pc = "failed"
    /\ next_agent = "credit_evaluator"
    /\ sup_evals = 4
    /\ node_execs = 3
    /\ iteration_count = 3
    /\ Len(risk_signals) = 3
    /\ Len(messages) = 4

-----------------------------------------------------------------------------
(* Further properties of retry_with_backoff (RetrySpec) *)

\* C29: the wrapper returns the result of the first invocation that succeeds
\* and never invokes the operation again; when the success follows k
\* rate-limit failures, k <= max_retries, there were exactly k + 1
\* invocations, one sleep between consecutive invocations and no sleep
\* after the successful one.
C29_FirstSuccessReturns ==
    /\ r_invocations <= Len(r_errors) + 1
    /\ r_invocations = Len(r_errors) + 1 =>
          /\ r_pc = "returned"
          /\ r_result = r_invocations
          /\ Len(r_sleeps) = Len(r_errors)
          /\ Len(r_errors) <= r_max_retries
          /\ \A i \in 1..Len(r_errors) : IsRateLimit(r_errors[i])
    /\ r_pc = "returned" => r_invocations = Len(r_errors) + 1
    /\ r_result # 0 => r_pc = "returned"

C29_Witness ==
    /\ r_pc = "returned"
    /\ r_max_retries = 3
    /\ Len(r_errors) = 2
    /\ r_invocations = 3
    /\ r_result = 3
    /\ Len(r_sleeps) = 2

-----------------------------------------------------------------------------
(* Re-routing (Spec) *)

\* number of completed executions of agent a so far
Executions(a) == Cardinality({ k \in 1..Len(risk_signals) : risk_signals[k].agent = a })

\* C30: re-routing is bounded by the iteration ceiling alone: nothing stops
\* the adaptive phase from choosing the same agent every time, so that an
\* agent executes up to 8 times (its pipeline turn and 7 re-routes) before
\* the guard forces FINISH, and never more.
C30_ReroutesBoundedByCeilingOnly ==
    /\ \A a \in Agents : Executions(a) <= 8
    /\ Len(risk_signals) <= 10
    /\ \A a \in Agents :
          Executions(a) = 8 =>
              /\ Len(risk_signals) = 10
              /\ iteration_count = 10
              /\ \A b \in Agents \ {a} : Executions(b) = 1
    /\ (pc = "end" /\ \E a \in Agents : Executions(a) = 8) => sup_path = "guard"

C30_Witness ==
    /\ pc = "end"
    /\ sup_path = "guard"
    /\ next_agent = "FINISH"
    /\ Executions("credit_evaluator") = 8
    /\ \A k \in 4..10 : risk_signals[k].agent = "credit_evaluator"
    /\ sup_llm_calls = 7

-----------------------------------------------------------------------------
(* Provenance (ReactSpec) *)

\* the tool results tool dispatch produced that carry data
DispatchedData ==
    { i \in 1..Len(lp_messages) :
        lp_messages[i].type = "tool" /\ lp_messages[i].content.text = <<"TOOL_OUTPUT">> }

\* C27: every tool result that tool dispatch produced during the run and
\* that carries data is among the tool-result entries of the shared
\* transcript that the provenance scan reads once the node has completed.
C27_ToolResultsScanned ==
    (pc = "supervisor" /\ lp_pc = "returned") =>
        \A i \in DispatchedData :
            \E j \in 1..Len(ScannedToolResults(messages)) :
                ScannedToolResults(messages)[j].content = lp_messages[i].content.text

-----------------------------------------------------------------------------
(* The vector store singleton (StoreSpec) *)

\* C28: under every interleaving of concurrent first calls of _get_store the
\* index is constructed at most once, seeded at most once, and every caller
\* receives the same handle.
C28_SingletonSafe ==
    /\ s_constructed <= 1
    /\ s_seeds <= 1
    /\ \A t, u \in Threads :
          (s_pc[t] = "done" /\ s_pc[u] = "done") => s_returned[t] = s_returned[u]

-----------------------------------------------------------------------------
(* The checkpoint fallback (BuildSpec) *)

\* C26: when the durable checkpoint backend cannot be imported or connecting
\* raises, the build does not raise: it returns a graph compiled with the
\* in-process checkpointer whose entry point and edges are those of the
\* graph compiled with the durable one, and every step of the run on it is
\* the step that wiring prescribes, as with the durable backend.
C26_FallbackTransparent ==
    [][ /\ b_pc' # "raised"
        /\ (b_pc = "start" /\ b_env \in {"no_module", "no_connection"}) =>
              /\ b_pc' = "returned"
              /\ b_graph'.checkpointer = "MemorySaver"
              /\ [b_graph' EXCEPT !.checkpointer = "AsyncRedisSaver"]
                    = BuildGraph("AsyncRedisSaver")
        /\ pc = "off" => pc' \in {"off", "supervisor"}
        /\ (pc = "supervisor" /\ pc' # "failed") =>
              /\ next_agent' = "FINISH" => pc' = "end"
              /\ next_agent' # "FINISH" =>
                    pc' = BuildGraph("AsyncRedisSaver").conditional[next_agent']
        /\ (pc \in Agents /\ pc' # "failed") =>
              pc' = BuildGraph("AsyncRedisSaver").edges[pc]
        /\ b_pc = "returned" => b_graph' = b_graph
    ]_vars

C26_Witness ==
    /\ b_env = "no_connection"
    /\ b_pc = "returned"
    /\ b_graph.checkpointer = "MemorySaver"
    /\ pc = "end"
    /\ node_execs = 4
    /\ final_report # <<>>

-----------------------------------------------------------------------------
(* The state at the end of a run, and between its steps (Spec) *)

\* the positions of risk_signals holding a record of agent a
RecordsOf(a) == { k \in 1..Len(risk_signals) : risk_signals[k].agent = a }

\* C31: whenever a run started from the initial state reaches the graph's
\* end, each of the three required agents has a record in risk_signals and
\* final_report is not empty; a run that the guard ended has had its
\* market_synthesizer report.
C31_EndHasFullPipeline ==
    pc = "end" =>
        /\ RecordsOf("geopolitical_analyst") # {}
        /\ RecordsOf("credit_evaluator") # {}
        /\ RecordsOf("market_synthesizer") # {}
        /\ final_report # <<>>
        /\ Len(risk_signals) >= 3

C31_Witness ==
    /\ pc = "end"
    /\ sup_path = "guard"
    /\ iteration_count = 10
    /\ RecordsOf("market_synthesizer") # {}
    /\ final_report # <<>>

\* C32: in every reachable state of a run started from the initial state,
\* risk_signals has iteration_count records and the transcript has
\* 1 + iteration_count entries: the message of the user, then one entry per
\* agent node execution, attributed to the agent of the matching record.
C32_OneEntryPerExecution ==
    /\ Len(risk_signals) = iteration_count
    /\ Len(messages) = 1 + iteration_count
    /\ messages[1].role = "user"
    /\ \A k \in 1..Len(risk_signals) :
          k + 1 <= Len(messages) =>
              /\ messages[k + 1].role = "assistant"
              /\ messages[k + 1].name = risk_signals[k].agent

C32_Witness ==
    /\ pc = "supervisor"
    /\ iteration_count = 4
    /\ Len(messages) = 5
    /\ Len(risk_signals) = 4
    /\ messages[5].name = "credit_evaluator"

\* C33: in every reachable state, final_report is empty when
\* market_synthesizer has no record in risk_signals, and is otherwise the
\* analysis of the latest market_synthesizer record; so a later record of
\* geopolitical_analyst or credit_evaluator leaves it as it was.
C33_ReportIsLatestSynthesis ==
    IF RecordsOf("market_synthesizer") = {}
    THEN final_report = <<>>
    ELSE LET latest == CHOOSE k \in RecordsOf("market_synthesizer") :
                           \A j \in RecordsOf("market_synthesizer") : j <= k
         IN  final_report = risk_signals[latest].analysis

C33_Witness ==
    /\ Len(risk_signals) = 5
    /\ risk_signals[3].agent = "market_synthesizer"
    /\ risk_signals[3].analysis = <<"plain-report">>
    /\ risk_signals[4].agent = "market_synthesizer"
    /\ risk_signals[4].analysis = <<report_marker, "report">>
    /\ risk_signals[5].agent = "credit_evaluator"
    /\ final_report = <<report_marker, "report">>

-----------------------------------------------------------------------------
(* The durable checkpointer during the run (BuildSpec) *)

\* C34: on the successful durable path, the connection context that produced
\* the checkpointer is still entered whenever the caller runs the graph
\* compiled with it.
C34_CheckpointerOpenDuringRun ==
    (/\ b_env = "redis"
     /\ b_pc = "returned"
     /\ b_graph.checkpointer = "AsyncRedisSaver"
     /\ pc # "off")
        => b_ctx = "entered"

-----------------------------------------------------------------------------
(* An object without a usable "next" (ParseSpec) *)

\* the object at c[i..j] has no "next" member, or its last one is not the
\* name of an option
NextUnusable(c, i, j) == \A o \in Range(AGENT_OPTIONS) : ~NextIs(c, i, j, o)

\* C35 as stated: whenever the response embeds a well-formed JSON object
\* whose "next" is missing or is not a known option, the decision is FINISH,
\* whatever option names occur elsewhere in the response.
C35_EmbeddedUnusableFinishes ==
    parsed = "returned" =>
        \A i, j \in 1..Len(content) :
            (IsObjectAt(content, i, j) /\ NextUnusable(content, i, j))
                => decision = FINISH

\* C35 as amended: when the text from the first "{" to the last "}" of the
\* response is a well-formed JSON object whose "next" is missing or is not a
\* known option, the decision is FINISH, whatever option names occur before
\* the first "{" and after the last "}".
C35_SpanUnusableFinishes ==
    parsed = "returned" =>
        \A i \in 1..Len(content) :
            (content[i] = LB /\ \A k \in 1..(i - 1) : content[k] # LB) =>
                \A j \in (i + 1)..Len(content) :
                    (/\ content[j] = RB
                     /\ \A k \in (j + 1)..Len(content) : content[k] # RB
                     /\ IsObjectAt(content, i, j)
                     /\ NextUnusable(content, i, j))
                        => decision = FINISH

C35_Witness ==
    /\ parsed = "returned"
    /\ content = <<Word("credit_evaluator"), LB,
                   Pair("next", "Geopolitical_Analyst", TRUE), RB, Word("credit_evaluator")>>
    /\ decision = FINISH

-----------------------------------------------------------------------------
(* The result of the loop, and its dispatch rounds (ReactSpec) *)

\* C36: whenever _run_react_loop returns, for any max_iterations >= 0, its
\* result is neither empty nor made of whitespace only; so the analysis of
\* every risk signal and the text of every agent entry of the transcript is
\* not empty.
C36_ResultNeverBlank ==
    /\ lp_pc = "returned" => (lp_final_text # <<>> /\ ~IsBlankText(lp_final_text))
    /\ \A k \in 1..Len(risk_signals) :
          risk_signals[k].analysis # <<>> /\ ~IsBlankText(risk_signals[k].analysis)
    /\ \A i \in 1..Len(messages) :
          messages[i].role = "assistant" =>
              /\ Len(messages[i].content) > 2
              /\ ~IsBlankText(SubSeq(messages[i].content, 3, Len(messages[i].content)))

C36_Witness ==
    /\ lp_max_iterations = 0
    /\ lp_llm_calls = 0
    /\ lp_pc = "returned"
    /\ lp_final_text = <<"Analysis could not be completed.">>
    /\ pc = "supervisor"
    /\ risk_signals = <<[agent |-> lp_agent, analysis |-> lp_final_text]>>

\* the responses of the working transcript that request tool calls
ToolRequests == { i \in LoopResponses : lp_messages[i].tool_calls # <<>> }

\* the tool results of the working transcript
ToolResults == { i \in 1..Len(lp_messages) : lp_messages[i].type = "tool" }

\* C37: the loop has run one dispatch round per response that requests tool
\* calls, each followed in the working transcript by the results of its
\* calls; when the response of the last permitted iteration requests tool
\* calls, its tools are executed and their results end the working
\* transcript, no further reasoning-service call being made.
C37_DispatchPerToolRequest ==
    /\ lp_pc \in {"call", "extract", "returned"} =>
          /\ lp_iteration = Cardinality(ToolRequests)
          /\ lp_dispatched = Cardinality(ToolResults)
          /\ \A i \in ToolRequests :
                \A k \in 1..Len(lp_messages[i].tool_calls) :
                    /\ i + k <= Len(lp_messages)
                    /\ lp_messages[i + k].type = "tool"
                    /\ lp_messages[i + k].tool_call_id = lp_messages[i].tool_calls[k].id
    /\ lp_pc = "tools" => lp_iteration + 1 = Cardinality(ToolRequests)
    /\ (lp_pc \in {"extract", "returned"} /\ lp_response # NoResponse
                                           /\ lp_response.tool_calls # <<>>) =>
          /\ lp_llm_calls = lp_max_iterations
          /\ lp_iteration = lp_max_iterations
          /\ lp_messages[Len(lp_messages)].type = "tool"
          /\ lp_messages[Len(lp_messages) - Len(lp_response.tool_calls)] = lp_response

C37_Witness ==
    /\ lp_pc = "returned"
    /\ lp_max_iterations = 2
    /\ lp_llm_calls = 2
    /\ lp_iteration = 2
    /\ lp_response.tool_calls # <<>>
    /\ lp_messages[Len(lp_messages)].type = "tool"
    /\ lp_dispatched = 3

====
